---------------------------- MODULE Spec2Model ----------------------------
(***************************************************************************)
(* A model of the NPC navigation and behaviour engine of GameDevFinal:     *)
(* the A* pathfinder (src/map/pathfinding.py), the customer classes        *)
(* (src/entities) and the part of GameState.update that drives them        *)
(* (src/game/game_state.py).                                               *)
(*                                                                         *)
(* Lengths are whole pixels and times are whole milliseconds.  A Python    *)
(* None is the empty tuple.  A pygame.Vector2 is a pair <<x, y>>.          *)
(***************************************************************************)
EXTENDS Integers, Sequences, FiniteSets, TLC

(***************************************************************************)
(* Bounds of the model.                                                    *)
(***************************************************************************)
\* the synthetic grids given to find_path have GridCols x GridRows tiles
GridCols == 3
GridRows == 3
\* ... and at most MaxWalls wall tiles
MaxWalls == 2
\* the max_path_length of the calls of find_path that do not use the default
SmallCap == 3
\* a random.choice over a list is sampled at ChoiceWidth of its entries
ChoiceWidth == 2
\* the calls of _follow_path without a path to follow are counted up to DryCap
DryCap == 12
\* a mover is called at most MaxCalls times on the way to one target
MaxCalls == 8

(***************************************************************************)
(* src/config.py                                                           *)
(***************************************************************************)
TILE_SIZE == 120
TILE_FLOOR == "."
TILE_WALL == "#"
TILE_SHELF == "S"
TILE_DOOR == "D"
TILE_COUNTER == "C"
TILE_NODE == "N"
TILE_OFFICE_DOOR == "O"
TILE_COMPUTER == "P"
CUSTOMER_SOLID_TILES ==
    {TILE_WALL, TILE_SHELF, TILE_COUNTER, TILE_OFFICE_DOOR, TILE_COMPUTER}

None == <<>>

VARIABLES
    tile_map,       \* TileMap.map_data: a sequence of rows, each a sequence of tile codes
    pf,             \* the find_path call under test: its arguments and its result
    customers,      \* GameState.customers: the sequence of the live customer objects
    cash_items,     \* GameState.cash_items: the sequence of the Cash objects
    litter_items,   \* GameState.litter_items: the positions of the Litter objects
    game            \* the other attributes of the GameState and the position in update()

vars == <<tile_map, pf, customers, cash_items, litter_items, game>>

(***************************************************************************)
(* src/map/tile_map.py                                                     *)
(***************************************************************************)
MapRows(tm) == Len(tm)
MapCols(tm) == IF Len(tm) > 0 THEN Len(tm[1]) ELSE 0

\* TileMap.tile_at: out of bounds is a wall
tile_at(tm, col, row) ==
    IF 0 <= row /\ row < MapRows(tm) /\ 0 <= col /\ col < MapCols(tm)
    THEN tm[row + 1][col + 1]
    ELSE TILE_WALL

\* 0 <= row < self.rows and 0 <= col < self.cols
InBounds(tm, cell) ==
    0 <= cell[1] /\ cell[1] < MapCols(tm) /\ 0 <= cell[2] /\ cell[2] < MapRows(tm)

(***************************************************************************)
(* src/map/pathfinding.py                                                  *)
(***************************************************************************)
Abs(x) == IF x < 0 THEN -x ELSE x

heuristic(col1, row1, col2, row2) == Abs(col1 - col2) + Abs(row1 - row2)

\* a pathfinder for which a door is no way through
is_walkable_no_door(tm, col, row) ==
    LET tile == tile_at(tm, col, row)
    IN  tile = TILE_FLOOR \/ tile = TILE_NODE

is_walkable(tm, col, row) ==
    LET tile == tile_at(tm, col, row)
    IN  tile = TILE_FLOOR \/ tile = TILE_NODE \/ tile = TILE_DOOR
        \/ tile \notin CUSTOMER_SOLID_TILES

\* the offsets get_neighbors tries, in its order
NeighborOffsets == << <<0, 1>>, <<0, -1>>, <<1, 0>>, <<-1, 0>> >>

\* neighbours that include the four diagonal tiles
get_neighbors_diagonal(tm, col, row) ==
    SelectSeq(<< <<col, row + 1>>, <<col, row - 1>>, <<col + 1, row>>, <<col - 1, row>>,
                 <<col + 1, row + 1>>, <<col - 1, row - 1>>,
                 <<col + 1, row - 1>>, <<col - 1, row + 1>> >>,
              LAMBDA c : is_walkable(tm, c[1], c[2]))

get_neighbors(tm, col, row) ==
    SelectSeq([i \in 1..4 |-> <<col + NeighborOffsets[i][1], row + NeighborOffsets[i][2]>>],
              LAMBDA c : is_walkable(tm, c[1], c[2]))

\* Python's // on a float coordinate, then int(): the floor
world_to_tile(world_pos) == <<world_pos[1] \div TILE_SIZE, world_pos[2] \div TILE_SIZE>>

tile_to_world(col, row) ==
    <<col * TILE_SIZE + TILE_SIZE \div 2, row * TILE_SIZE + TILE_SIZE \div 2>>

\* range(-radius, radius + 1) twice, keeping the perimeter, in loop order
RECURSIVE RingScan(_, _, _, _, _)
RingScan(tm, col, row, radius, k) ==
    \* k counts the (dc, dr) pairs of this radius already tried
    LET side == 2 * radius + 1
        dc == (k \div side) - radius
        dr == (k % side) - radius
    IN  IF k >= side * side THEN None
        ELSE IF (Abs(dc) = radius \/ Abs(dr) = radius) /\ is_walkable(tm, col + dc, row + dr)
             THEN <<col + dc, row + dr>>
             ELSE RingScan(tm, col, row, radius, k + 1)

\* for radius in range(1, 5): the first walkable perimeter tile, or None
RECURSIVE NearestWalkable(_, _, _, _)
NearestWalkable(tm, col, row, radius) ==
    IF radius >= 5 THEN None
    ELSE LET hit == RingScan(tm, col, row, radius, 0)
         IN  IF hit # None THEN hit ELSE NearestWalkable(tm, col, row, radius + 1)

\* a search for a replacement tile that begins at the second ring
ResolveTile_farther(tm, cell) ==
    IF is_walkable(tm, cell[1], cell[2]) THEN cell
    ELSE NearestWalkable(tm, cell[1], cell[2], 2)

\* the start or goal tile find_path searches from: itself when walkable
ResolveTile(tm, cell) ==
    IF is_walkable(tm, cell[1], cell[2]) THEN cell
    ELSE NearestWalkable(tm, cell[1], cell[2], 1)

\* Node(col, row, g, h, parent); chain is the walk over the parent links,
\* this node first and the start node last
MkNode(col, row, g, h, parentChain) ==
    [col |-> col, row |-> row, g |-> g, h |-> h, f |-> g + h,
     chain |-> <<<<col, row>>>> \o parentChain]

\* a comparison that pops the costliest node first
NodeLt_reversed(a, b) == a.f > b.f

\* Node.__lt__
NodeLt(a, b) == a.f < b.f

\* heapq._siftdown(heap, startpos, pos) with 0-based positions
RECURSIVE SiftDownLoop(_, _, _, _)
SiftDownLoop(heap, startpos, pos, newitem) ==
    IF pos > startpos
    THEN LET parentpos == (pos - 1) \div 2
             parent == heap[parentpos + 1]
         IN  IF NodeLt(newitem, parent)
             THEN SiftDownLoop([heap EXCEPT ![pos + 1] = parent], startpos, parentpos, newitem)
             ELSE [heap EXCEPT ![pos + 1] = newitem]
    ELSE [heap EXCEPT ![pos + 1] = newitem]

SiftDown(heap, startpos, pos) == SiftDownLoop(heap, startpos, pos, heap[pos + 1])

\* heapq.heappush
HeapPush(heap, item) == SiftDown(Append(heap, item), 0, Len(heap))

\* heapq._siftup(heap, pos): bubble the smaller child up to a leaf, then sift down
RECURSIVE SiftUpLoop(_, _, _, _)
SiftUpLoop(heap, startpos, pos, newitem) ==
    LET endpos == Len(heap)
        childpos == 2 * pos + 1
        rightpos == childpos + 1
        pick == IF rightpos < endpos /\ ~NodeLt(heap[childpos + 1], heap[rightpos + 1])
                THEN rightpos ELSE childpos
    IN  IF childpos < endpos
        THEN SiftUpLoop([heap EXCEPT ![pos + 1] = heap[pick + 1]], startpos, pick, newitem)
        ELSE SiftDown([heap EXCEPT ![pos + 1] = newitem], startpos, pos)

\* heapq.heappop: <<returned item, heap left>>
HeapPop(heap) ==
    LET lastelt == heap[Len(heap)]
        rest == SubSeq(heap, 1, Len(heap) - 1)
    IN  IF Len(rest) > 0
        THEN <<rest[1], SiftUpLoop([rest EXCEPT ![1] = lastelt], 0, 0, lastelt)>>
        ELSE <<lastelt, rest>>

\* the scan over open_set for the neighbour: the first entry on the same tile decides
RECURSIVE FoundBetter(_, _, _, _, _)
FoundBetter(open_set, i, col, row, f_cost) ==
    IF i > Len(open_set) THEN FALSE
    ELSE IF open_set[i].col = col /\ open_set[i].row = row
         THEN open_set[i].f <= f_cost
         ELSE FoundBetter(open_set, i + 1, col, row, f_cost)

\* the for loop over get_neighbors(current): the open set after it
RECURSIVE PushNeighbors(_, _, _, _, _, _)
PushNeighbors(open_set, closed_set, current, nbrs, i, goal) ==
    IF i > Len(nbrs) THEN open_set
    ELSE LET nc == nbrs[i][1]
             nr == nbrs[i][2]
             g_cost == current.g + 1
             h_cost == heuristic(nc, nr, goal[1], goal[2])
             f_cost == g_cost + h_cost
             next == IF <<nc, nr>> \in closed_set THEN open_set
                     ELSE IF FoundBetter(open_set, 1, nc, nr, f_cost) THEN open_set
                     ELSE HeapPush(open_set, MkNode(nc, nr, g_cost, h_cost, current.chain))
         IN  PushNeighbors(next, closed_set, current, nbrs, i + 1, goal)

\* the walk over the parent links without path.reverse()
Reconstruct_unreversed(chain, max_path_length) ==
    IF Len(chain) > max_path_length THEN None
    ELSE [i \in 1..Len(chain) |-> tile_to_world(chain[i][1], chain[i][2])]

\* a walk over the parent links that does not count its nodes
Reconstruct_uncapped(chain, max_path_length) ==
    [i \in 1..Len(chain) |->
        tile_to_world(chain[Len(chain) + 1 - i][1], chain[Len(chain) + 1 - i][2])]

\* the walk over the parent links: None past max_path_length nodes, else reversed
Reconstruct(chain, max_path_length) ==
    IF Len(chain) > max_path_length THEN None
    ELSE [i \in 1..Len(chain) |->
            tile_to_world(chain[Len(chain) + 1 - i][1], chain[Len(chain) + 1 - i][2])]

\* the A* main loop
RECURSIVE AStarLoop(_, _, _, _, _)
AStarLoop(tm, open_set, closed_set, goal, max_path_length) ==
    IF Len(open_set) = 0 THEN None
    ELSE LET popped == HeapPop(open_set)
             current == popped[1]
             rest == popped[2]
             current_pos == <<current.col, current.row>>
         IN  IF current_pos \in closed_set
             THEN AStarLoop(tm, rest, closed_set, goal, max_path_length)
             ELSE IF current_pos = goal
                  THEN Reconstruct(current.chain, max_path_length)
                  ELSE LET closed2 == closed_set \cup {current_pos}
                       IN  AStarLoop(tm,
                                     PushNeighbors(rest, closed2, current,
                                                   get_neighbors(tm, current.col, current.row),
                                                   1, goal),
                                     closed2, goal, max_path_length)

\* find_path(tile_map, start, goal, max_path_length): a sequence of tile centres or None
find_path_capped(tm, start, goal, max_path_length) ==
    LET s == ResolveTile(tm, world_to_tile(start))
    IN  IF s = None THEN None
        ELSE LET g == ResolveTile(tm, world_to_tile(goal))
             IN  IF g = None THEN None
                 ELSE IF s = g THEN <<tile_to_world(g[1], g[2])>>
                 ELSE AStarLoop(tm,
                                HeapPush(<<>>, MkNode(s[1], s[2], 0,
                                                      heuristic(s[1], s[2], g[1], g[2]), <<>>)),
                                {}, g, max_path_length)

DEFAULT_MAX_PATH_LENGTH == 1000

find_path(tm, start, goal) == find_path_capped(tm, start, goal, DEFAULT_MAX_PATH_LENGTH)


(***************************************************************************)
(* src/config.py: sizes and speeds of the customers                        *)
(***************************************************************************)
FPS == 60
DAY_DURATION == 25000
PLAYER_RADIUS == 42
CUSTOMER_RADIUS == PLAYER_RADIUS
\* CUSTOMER_SPEED = PLAYER_SPEED / 2.0 = 4.5 pixels per frame, in tenths of a pixel
CUSTOMER_SPEED == 45

(***************************************************************************)
(* pygame arithmetic on whole pixels                                       *)
(***************************************************************************)
\* the member of a one-element set: Only({e(x) : x \in {v}}) is e(v), with v
\* worked out once
Only(S) == CHOOSE x \in S : TRUE
Max(a, b) == IF a >= b THEN a ELSE b
Min(a, b) == IF a <= b THEN a ELSE b

\* Python's int() of a / b for b > 0: truncation towards zero
Trunc(a, b) == IF a >= 0 THEN a \div b ELSE -((-a) \div b)

\* a / b for b > 0 rounded to the nearest whole number
RoundDiv(a, b) == IF a >= 0 THEN (2 * a + b) \div (2 * b) ELSE -((2 * (-a) + b) \div (2 * b))

\* the largest r in lo..hi with r * r <= v
RECURSIVE SqrtBetween(_, _, _)
SqrtBetween(v, lo, hi) ==
    IF lo >= hi THEN lo
    ELSE LET mid == (lo + hi + 1) \div 2
         IN  IF mid * mid <= v THEN SqrtBetween(v, mid, hi) ELSE SqrtBetween(v, lo, mid - 1)

ISqrt(v) == SqrtBetween(v, 0, 46340)

\* Vector2 subtraction, length_squared() and length()
VSub(a, b) == <<a[1] - b[1], a[2] - b[2]>>
LengthSq(v) == v[1] * v[1] + v[2] * v[2]
Length(v) == ISqrt(LengthSq(v))

\* (a - b).length() < limit, for a whole limit
Within(a, b, limit) == LengthSq(VSub(a, b)) < limit * limit

\* pygame.Rect(left, top, width, height)
Rect(left, top, width, height) ==
    [left |-> left, top |-> top, right |-> left + width, bottom |-> top + height]

\* Rect.colliderect: rectangles that only touch do not collide
colliderect(a, b) ==
    a.left < b.right /\ a.right > b.left /\ a.top < b.bottom /\ a.bottom > b.top

\* the rect property of the three customer classes
CustomerRect(position) ==
    Rect(position[1] - CUSTOMER_RADIUS, position[2] - CUSTOMER_RADIUS,
         CUSTOMER_RADIUS * 2, CUSTOMER_RADIUS * 2)

(***************************************************************************)
(* src/map/collision.py                                                    *)
(***************************************************************************)
\* get_customer_solid_tiles_around(rect, tile_map)[0]: the obstacle rects
get_customer_solid_tiles_around(rect, tm) ==
    LET left == Max(rect.left \div TILE_SIZE - 1, 0)
        right == Min(rect.right \div TILE_SIZE + 1, MapCols(tm) - 1)
        top == Max(rect.top \div TILE_SIZE - 1, 0)
        bottom == Min(rect.bottom \div TILE_SIZE + 1, MapRows(tm) - 1)
    IN  {Rect(col * TILE_SIZE, row * TILE_SIZE, TILE_SIZE, TILE_SIZE) :
            <<col, row>> \in {c \in (left..right) \X (top..bottom) :
                                tile_at(tm, c[1], c[2]) # TILE_DOOR
                                /\ tile_at(tm, c[1], c[2]) \in CUSTOMER_SOLID_TILES}}


(***************************************************************************)
(* src/entities/thief_customer.py and src/entities/litter_customer.py:     *)
(* the navigation both classes share, line for line.  self is the record   *)
(* of the object's attributes; an operator that returns a value as well    *)
(* returns the pair <<self, value>>.  The attributes h_paths, h_follow,     *)
(* h_steer and h_dry are history: the _compute_path calls of the current   *)
(* update, the stuck check of its latest _follow_path call, the direct     *)
(* movement of its latest _follow_path call that had no path to follow,    *)
(* and the number of such calls in a row since the last _compute_path.     *)
(***************************************************************************)
\* the step of one call in hundredths of a pixel: CUSTOMER_SPEED * dt * FPS
StepOf(dt) == (CUSTOMER_SPEED * dt * FPS) \div 100

\* a collision test that lets every position pass
would_collide_never(pos, solid_rects) == FALSE

\* would_collide(pos): the reduced box against the obstacle rects
would_collide(pos, solid_rects) ==
    LET phase_amount == TILE_SIZE * 3
        effective_radius == Max(CUSTOMER_RADIUS * 10 - phase_amount, CUSTOMER_RADIUS * 4)
        test_rect == Rect(Trunc(pos[1] * 10 - effective_radius, 10),
                          Trunc(pos[2] * 10 - effective_radius, 10),
                          Trunc(effective_radius * 2, 10), Trunc(effective_radius * 2, 10))
    IN  \E tile_rect \in solid_rects : colliderect(test_rect, tile_rect)

\* a mover that slides before it tries the two axes
MoveCandidate_slides_first(position, direction, distance, step, solid_rects) ==
    LET move_x == RoundDiv(direction[1] * step, distance * 100)
        move_y == RoundDiv(direction[2] * step, distance * 100)
        perp_x == RoundDiv(-direction[2] * step, distance * 200)
        perp_y == RoundDiv(direction[1] * step, distance * 200)
        new_pos == <<position[1] + move_x, position[2] + move_y>>
        new_pos_x == <<position[1] + move_x, position[2]>>
        new_pos_y == <<position[1], position[2] + move_y>>
        perp_pos1 == <<position[1] + perp_x, position[2] + perp_y>>
        perp_pos2 == <<position[1] - perp_x, position[2] - perp_y>>
        first == IF Abs(direction[1]) > Abs(direction[2]) THEN new_pos_x ELSE new_pos_y
        second == IF Abs(direction[1]) > Abs(direction[2]) THEN new_pos_y ELSE new_pos_x
    IN  IF ~would_collide(new_pos, solid_rects) THEN new_pos
        ELSE IF ~would_collide(perp_pos1, solid_rects) THEN perp_pos1
        ELSE IF ~would_collide(perp_pos2, solid_rects) THEN perp_pos2
        ELSE IF ~would_collide(first, solid_rects) THEN first
        ELSE IF ~would_collide(second, solid_rects) THEN second
        ELSE position

\* the position _move_towards ends at: the first candidate that does not collide
MoveCandidate(position, direction, distance, step, solid_rects) ==
    LET move_x == RoundDiv(direction[1] * step, distance * 100)
        move_y == RoundDiv(direction[2] * step, distance * 100)
        perp_x == RoundDiv(-direction[2] * step, distance * 200)
        perp_y == RoundDiv(direction[1] * step, distance * 200)
        new_pos == <<position[1] + move_x, position[2] + move_y>>
        new_pos_x == <<position[1] + move_x, position[2]>>
        new_pos_y == <<position[1], position[2] + move_y>>
        perp_pos1 == <<position[1] + perp_x, position[2] + perp_y>>
        perp_pos2 == <<position[1] - perp_x, position[2] - perp_y>>
        first == IF Abs(direction[1]) > Abs(direction[2]) THEN new_pos_x ELSE new_pos_y
        second == IF Abs(direction[1]) > Abs(direction[2]) THEN new_pos_y ELSE new_pos_x
    IN  IF ~would_collide(new_pos, solid_rects) THEN new_pos
        ELSE IF ~would_collide(first, solid_rects) THEN first
        ELSE IF ~would_collide(second, solid_rects) THEN second
        ELSE IF ~would_collide(perp_pos1, solid_rects) THEN perp_pos1
        ELSE IF ~would_collide(perp_pos2, solid_rects) THEN perp_pos2
        ELSE position

\* a mover that steps onto a target it is already close to
_move_towards_snaps(self, target, dt, solid_rects, proximity_threshold) ==
    LET direction == VSub(target, self.position)
        distance == Length(direction)
    IN  IF LengthSq(direction) < proximity_threshold * proximity_threshold
        THEN <<[self EXCEPT !.position = target], TRUE>>
        ELSE Only({<<moved, Within(target, moved.position, proximity_threshold)>> :
                      moved \in {[self EXCEPT !.position =
                                     MoveCandidate(self.position, direction, distance,
                                                   StepOf(dt), solid_rects)]}})

\* _move_towards(target, dt, solid_rects, proximity_threshold)
_move_towards(self, target, dt, solid_rects, proximity_threshold) ==
    LET direction == VSub(target, self.position)
        distance == Length(direction)
    IN  IF LengthSq(direction) < proximity_threshold * proximity_threshold THEN <<self, TRUE>>
        ELSE IF LengthSq(direction) = 0 THEN <<[self EXCEPT !.position = target], TRUE>>
        ELSE Only({<<moved, Within(target, moved.position, proximity_threshold)>> :
                      moved \in {[self EXCEPT !.position =
                                     MoveCandidate(self.position, direction, distance,
                                                   StepOf(dt), solid_rects)]}})

\* a _compute_path that goes on counting the waypoints from where it was
_compute_path_keeps_index(self, tm, target) ==
    [self EXCEPT !.path = find_path(tm, self.position, target),
                 !._stuck_timer = 0,
                 !._last_position = self.position,
                 !.h_paths = Append(self.h_paths, <<self.position, target>>),
                 !.h_dry = 0]

\* _compute_path(target); every customer of the store is built with a tile map
_compute_path(self, tm, target) ==
    [self EXCEPT !.path = find_path(tm, self.position, target),
                 !.path_index = 0,
                 !._stuck_timer = 0,
                 !._last_position = self.position,
                 !.h_paths = Append(self.h_paths, <<self.position, target>>),
                 !.h_dry = 0]

\* a stuck check that only fires after 0.4 s
_follow_path_stuck_slow(self, tm, dt, target) ==
    LET stuck == IF Within(self.position, self._last_position, TILE_SIZE \div 10)
                 THEN [self EXCEPT !._stuck_timer = self._stuck_timer + dt]
                 ELSE [self EXCEPT !._stuck_timer = 0, !._last_position = self.position]
        seen == [stuck EXCEPT !.h_follow = [position |-> self.position, target |-> target,
                                            stuck_timer |-> stuck._stuck_timer]]
    IN  IF seen._stuck_timer > 400
        THEN [_compute_path(seen, tm, target) EXCEPT !._stuck_timer = 0,
                                                     !._last_position = self.position]
        ELSE seen

\* a stuck check that never asks for a new path
_follow_path_stuck_never(self, tm, dt, target) ==
    LET stuck == IF Within(self.position, self._last_position, TILE_SIZE \div 10)
                 THEN [self EXCEPT !._stuck_timer = Min(self._stuck_timer + dt, 1000)]
                 ELSE [self EXCEPT !._stuck_timer = 0, !._last_position = self.position]
    IN  [stuck EXCEPT !.h_follow = [position |-> self.position, target |-> target,
                                    stuck_timer |-> stuck._stuck_timer]]

\* _follow_path, the stuck check: the timer runs while the customer is within
\* 0.1 tile of _last_position, and past 0.2 s the path is computed again
_follow_path_stuck(self, tm, dt, target) ==
    LET stuck == IF Within(self.position, self._last_position, TILE_SIZE \div 10)
                 THEN [self EXCEPT !._stuck_timer = self._stuck_timer + dt]
                 ELSE [self EXCEPT !._stuck_timer = 0, !._last_position = self.position]
        seen == [stuck EXCEPT !.h_follow = [position |-> self.position, target |-> target,
                                            stuck_timer |-> stuck._stuck_timer]]
    IN  IF seen._stuck_timer > 200
        THEN [_compute_path(seen, tm, target) EXCEPT !._stuck_timer = 0,
                                                     !._last_position = self.position]
        ELSE seen

\* _follow_path, the branch with a path to follow
_follow_path_waypoint(self, dt, solid_rects, target, proximity_threshold) ==
    LET next_waypoint == self.path[self.path_index + 1]
        waypoint_threshold == Max(proximity_threshold, TILE_SIZE \div 2)
        advanced == [self EXCEPT !.path_index = self.path_index + 1]
    IN  IF Within(self.position, next_waypoint, waypoint_threshold)
        THEN IF advanced.path_index >= Len(advanced.path)
             THEN <<advanced, Within(advanced.position, target, proximity_threshold)>>
             ELSE <<_move_towards(advanced, advanced.path[advanced.path_index + 1], dt,
                                  solid_rects, waypoint_threshold)[1], FALSE>>
        ELSE <<_move_towards(self, next_waypoint, dt, solid_rects, waypoint_threshold)[1],
               FALSE>>

\* a fallback that waits for a path instead of moving when find_path gave None
_follow_path_fallback_waits(self, tm, dt, solid_rects, target, proximity_threshold) ==
    Only({IF asked.path = None
          THEN <<[asked EXCEPT
                     !.h_dry = Min(asked.h_dry + 1, DryCap),
                     !.h_steer = [position |-> self.position, target |-> target,
                                  dt |-> dt, threshold |-> proximity_threshold,
                                  state |-> self.state, path |-> asked.path,
                                  dry |-> self.h_dry]], FALSE>>
          ELSE _move_towards([asked EXCEPT
                                 !.h_dry = Min(asked.h_dry + 1, DryCap),
                                 !.h_steer = [position |-> self.position, target |-> target,
                                              dt |-> dt, threshold |-> proximity_threshold,
                                              state |-> self.state, path |-> asked.path,
                                              dry |-> self.h_dry]],
                             target, dt, solid_rects, proximity_threshold) :
             asked \in {IF (self.path = None \/ self.path_index >= Len(self.path))
                           /\ (self._last_path_recompute_pos = None
                               \/ LengthSq(VSub(self.position, self._last_path_recompute_pos))
                                     > (TILE_SIZE * 2) * (TILE_SIZE * 2))
                        THEN [_compute_path(self, tm, target) EXCEPT
                                   !._last_path_recompute_pos = self.position]
                        ELSE self}})

\* _follow_path, the branch without one: direct movement, with a new path
\* asked for at the first call and after two tiles of progress
_follow_path_fallback(self, tm, dt, solid_rects, target, proximity_threshold) ==
    Only({_move_towards([asked EXCEPT
                            !.h_dry = Min(asked.h_dry + 1, DryCap),
                            !.h_steer = [position |-> self.position, target |-> target,
                                         dt |-> dt, threshold |-> proximity_threshold,
                                         state |-> self.state, path |-> asked.path,
                                         dry |-> self.h_dry]],
                        target, dt, solid_rects, proximity_threshold) :
             asked \in {IF (self.path = None \/ self.path_index >= Len(self.path))
                           /\ (self._last_path_recompute_pos = None
                               \/ LengthSq(VSub(self.position, self._last_path_recompute_pos))
                                     > (TILE_SIZE * 2) * (TILE_SIZE * 2))
                        THEN [_compute_path(self, tm, target) EXCEPT
                                   !._last_path_recompute_pos = self.position]
                        ELSE self}})

\* _follow_path(dt, solid_rects, target, proximity_threshold)
_follow_path(self, tm, dt, solid_rects, target, proximity_threshold) ==
    IF Within(self.position, target, proximity_threshold)
    THEN <<[self EXCEPT !._stuck_timer = 0], TRUE>>
    ELSE Only({IF checked.path # None /\ Len(checked.path) > 0
                  /\ checked.path_index < Len(checked.path)
               THEN _follow_path_waypoint([checked EXCEPT !.h_dry = 0], dt, solid_rects,
                                          target, proximity_threshold)
               ELSE _follow_path_fallback(checked, tm, dt, solid_rects, target,
                                          proximity_threshold) :
               checked \in {_follow_path_stuck(self, tm, dt, target)}})


(***************************************************************************)
(* Random draws.  A constructor returns the set of the objects it can      *)
(* build, one for each sampled outcome of its draws.  The draws inside the *)
(* update of one customer are sampled as constant streams: the attribute   *)
(* rng, fixed when the customer is built, is the rank among the samples    *)
(* that every draw of its update returns.  An update returns the set of    *)
(* its outcomes.                                                           *)
(***************************************************************************)
\* random.uniform(lo, hi) in a constructor, in milliseconds: the two ends
Uniform(lo, hi) == {lo, hi}

\* random.choice(seq) in a constructor: the first, the last and evenly spaced
\* entries between
Choice(seq) ==
    IF Len(seq) <= ChoiceWidth THEN {seq[i] : i \in 1..Len(seq)}
    ELSE {seq[1 + (j * (Len(seq) - 1)) \div (ChoiceWidth - 1)] : j \in 0..(ChoiceWidth - 1)}

\* the streams a customer can be built with
Streams == 1..ChoiceWidth

\* random.uniform(lo, hi) in the update of self; with lo above hi the draw
\* runs against the rank
UniformOf(self, lo, hi) == lo + ((hi - lo) * (self.rng - 1)) \div (ChoiceWidth - 1)

\* random.choice(seq) in the update of self
ChoiceOf(self, seq) == seq[1 + ((self.rng - 1) * (Len(seq) - 1)) \div (ChoiceWidth - 1)]

\* the constants in which ThiefCustomer.update and LitterCustomer.update
\* differ; the pause and the next delay are drawn at opposite ranks, so that
\* a long pause meets a short delay
Habits(self) ==
    IF self.kind = "thief"
    THEN [approach |-> (TILE_SIZE * 5) \div 2, slow |-> 60,
          pause |-> UniformOf(self, 400, 1000), delay |-> UniformOf(self, 2500, 600),
          look |-> UniformOf(self, 800, 2000), buying |-> UniformOf(self, 1500, 3500)]
    ELSE [approach |-> TILE_SIZE * 2, slow |-> 85,
          pause |-> UniformOf(self, 200, 500), delay |-> UniformOf(self, 1500, 300),
          look |-> UniformOf(self, 300, 1000), buying |-> UniformOf(self, 2000, 4000)]

(***************************************************************************)
(* The states ThiefCustomer.update and LitterCustomer.update share         *)
(***************************************************************************)
\* state "entering"
update_entering(self, tm, dt, solid_rects) ==
    UNION {LET at == r[1]
           IN  IF ~r[2] THEN {at}
               ELSE IF at.target_type = "node"
               THEN {_compute_path([at EXCEPT !.state = "to_node"], tm, at.node_pos)}
               ELSE LET t == IF Len(at.browsing_positions) > 0
                             THEN ChoiceOf(at, at.browsing_positions) ELSE at.shelf_pos
                    IN  {_compute_path([at EXCEPT !.state = "to_shelf",
                                                  !.shelf_target = t], tm, t)} :
           r \in {_move_towards(self, self.door_pos, dt, solid_rects,
                                (TILE_SIZE * 3) \div 10)}}

\* an arrival at the node that goes straight to buying
ArriveAtNode_buys(r) ==
    IF r[2]
    THEN {[r[1] EXCEPT !.state = "buying", !.buying_time = Habits(r[1]).buying,
                       !.buying_elapsed = 0, !.path = None, !.path_index = 0]}
    ELSE {r[1]}

\* state "to_node", on arrival at the node
ArriveAtNode(r) ==
    IF r[2]
    THEN {[r[1] EXCEPT !.state = "looking_at_node", !.look_around_timer = 0,
                       !.look_around_delay = Habits(r[1]).look, !.path = None,
                       !.path_index = 0]}
    ELSE {r[1]}

\* state "to_node": inside the approach radius the customer looks around
update_to_node(self, tm, dt, solid_rects) ==
    IF self.node_pos = None
    THEN {_compute_path([self EXCEPT !.state = "leaving"], tm, self.leave_pos)}
    ELSE IF Within(self.position, self.node_pos, Habits(self).approach)
    THEN LET looking == [self EXCEPT !.approaching_node = TRUE,
                                     !.look_around_timer = self.look_around_timer + dt]
             s == IF looking.look_around_timer >= looking.look_around_delay
                     /\ ~looking.is_paused
                  THEN [looking EXCEPT !.is_paused = TRUE,
                                       !.pause_timer = Habits(self).pause,
                                       !.look_around_timer = 0,
                                       !.look_around_delay = Habits(self).delay]
                  ELSE looking
         IN  IF s.is_paused
             THEN {[s EXCEPT !.pause_timer = s.pause_timer - dt,
                             !.is_paused = ~(s.pause_timer - dt <= 0)]}
             ELSE ArriveAtNode(_follow_path(s, tm, (dt * Habits(self).slow) \div 100,
                                            solid_rects, s.node_pos, TILE_SIZE \div 2))
    ELSE ArriveAtNode(_follow_path([self EXCEPT !.approaching_node = FALSE,
                                                !.is_paused = FALSE],
                                   tm, dt, solid_rects, self.node_pos, TILE_SIZE \div 2))

\* state "looking_at_node"
update_looking_at_node(self, dt) ==
    LET looking == [self EXCEPT !.look_around_timer = self.look_around_timer + dt]
    IN  IF looking.look_around_timer >= looking.look_around_delay
        THEN {[looking EXCEPT !.state = "buying", !.buying_time = Habits(self).buying,
                              !.buying_elapsed = 0, !.look_around_timer = 0]}
        ELSE {looking}

\* state "buying", once buying_elapsed has reached buying_time
LeaveNode(self, tm) ==
    _compute_path([self EXCEPT !.state = "leaving", !.path = None, !.path_index = 0,
                               !.approaching_node = FALSE, !.is_paused = FALSE],
                  tm, self.leave_pos)

\* the dot product of the two normalized directions is above 0.3
SameSide(a, b) == 10 * (a[1] * b[1] + a[2] * b[2]) > 3 * Length(a) * Length(b)

\* _pick_new_browsing_target without browsing positions: a point 1.5 to 2.5
\* tiles from the shelf, at most 60 degrees off the side the customer is on
RingTargets(self) ==
    LET near == (TILE_SIZE * 3) \div 2
        diag == (TILE_SIZE * 7) \div 4
        offsets == <<<<near, 0>>, <<diag, diag>>, <<0, near>>, <<-diag, diag>>,
                     <<-near, 0>>, <<-diag, -diag>>, <<0, -near>>, <<diag, -diag>>>>
        shelf_to_customer == VSub(self.position, self.shelf_pos)
        inside == SelectSeq(offsets,
                            LAMBDA o : LengthSq(shelf_to_customer) = 0
                                       \/ 2 * (o[1] * shelf_to_customer[1]
                                               + o[2] * shelf_to_customer[2])
                                            >= Length(o) * Length(shelf_to_customer))
    IN  [i \in 1..Len(inside) |->
            <<self.shelf_pos[1] + inside[i][1], self.shelf_pos[2] + inside[i][2]>>]

\* the target picked among all the browsing positions, whatever their side
NewBrowsingTarget_any(self) ==
    IF Len(self.browsing_positions) > 0
    THEN ChoiceOf(self, self.browsing_positions)
    ELSE ChoiceOf(self, RingTargets(self))

\* _pick_new_browsing_target, the target: a browsing position on the side
\* of the shelf the customer is on, or a point of the ring
NewBrowsingTarget(self) ==
    IF Len(self.browsing_positions) > 0
    THEN LET shelf_to_customer == VSub(self.position, self.shelf_pos)
             same_side == SelectSeq(self.browsing_positions,
                                    LAMBDA pos : LengthSq(VSub(pos, self.shelf_pos)) > 0
                                                 /\ SameSide(shelf_to_customer,
                                                             VSub(pos, self.shelf_pos)))
             valid_positions == IF LengthSq(shelf_to_customer) = 0 \/ Len(same_side) = 0
                                THEN self.browsing_positions ELSE same_side
         IN  ChoiceOf(self, valid_positions)
    ELSE ChoiceOf(self, RingTargets(self))

\* _pick_new_browsing_target
_pick_new_browsing_target(self, tm) ==
    LET t == NewBrowsingTarget(self)
    IN  {_compute_path([self EXCEPT !.browsing_target = t], tm, t)}

\* state "to_shelf"
update_to_shelf(self, tm, dt, solid_rects) ==
    LET t == IF Len(self.browsing_positions) > 0
             THEN ChoiceOf(self, self.browsing_positions) ELSE self.shelf_pos
    IN  UNION {IF r[2]
               THEN _pick_new_browsing_target(
                        [r[1] EXCEPT !.state = "browsing", !.browsing_elapsed = 0,
                                     !.shelf_target = None, !.path = None,
                                     !.path_index = 0, !._stuck_timer = 0], tm)
               ELSE {r[1]} :
               r \in {_follow_path(aimed, tm, dt, solid_rects, aimed.shelf_target,
                                   (TILE_SIZE * 4) \div 10) :
                         aimed \in {IF self.shelf_target = None
                                    THEN _compute_path([self EXCEPT !.shelf_target = t],
                                                       tm, t)
                                    ELSE self}}}

\* state "browsing", while the browsing time lasts: walk from one browsing
\* target to the next
update_browsing_walk(self, tm, dt, solid_rects) ==
    IF self.browsing_target = None THEN _pick_new_browsing_target(self, tm)
    ELSE UNION {IF r[2] THEN _pick_new_browsing_target(r[1], tm) ELSE {r[1]} :
                r \in {_follow_path(self, tm, dt, solid_rects, self.browsing_target,
                                    (TILE_SIZE * 4) \div 10)}}

\* state "leaving": by path to the door, then straight to the exit point
update_leaving(self, tm, dt, solid_rects) ==
    IF Within(self.position, self.door_pos, (TILE_SIZE * 3) \div 2)
    THEN {[r[1] EXCEPT !.finished = r[2] \/ self.finished] :
             r \in {_move_towards(self, self.leave_pos, dt, solid_rects, TILE_SIZE \div 2)}}
    ELSE {IF r[2] THEN [r[1] EXCEPT !.path = None, !.path_index = 0] ELSE r[1] :
             r \in {_follow_path(IF self.path = None \/ self.path_index >= Len(self.path)
                                 THEN _compute_path(self, tm, self.door_pos) ELSE self,
                                 tm, dt, solid_rects, self.door_pos,
                                 (TILE_SIZE * 4) \div 10)}}


(***************************************************************************)
(* src/entities/thief_customer.py.  A Cash object is the pair              *)
(* <<identity, pos>>.  A knockback velocity is in hundredths of a pixel.   *)
(***************************************************************************)
\* the attributes every customer object has
Attributes(kind, id, door_pos, position) ==
    [kind |-> kind, id |-> id, rng |-> 1, position |-> position, door_pos |-> door_pos,
     state |-> "entering",
     leave_pos |-> <<door_pos[1] + TILE_SIZE * 2, door_pos[2]>>,
     browsing_elapsed |-> 0, browsing_target |-> None, finished |-> FALSE]

\* the attributes ThiefCustomer.__init__ and LitterCustomer.__init__ both set
Navigator(kind, id, door_pos, chosen_target, node_targets, shelf_browsing_positions) ==
    LET is_node == \E i \in 1..Len(node_targets) : node_targets[i] = chosen_target
    IN  Attributes(kind, id, door_pos, door_pos) @@
        [target_type |-> IF is_node THEN "node" ELSE "shelf",
         node_pos |-> IF is_node THEN chosen_target ELSE None,
         shelf_pos |-> IF is_node THEN None ELSE chosen_target,
         browsing_positions |-> IF ~is_node /\ chosen_target \in DOMAIN shelf_browsing_positions
                                THEN shelf_browsing_positions[chosen_target] ELSE <<>>,
         shelf_target |-> None,
         path |-> None, path_index |-> 0, _last_path_recompute_pos |-> None,
         _stuck_timer |-> 0, _last_position |-> door_pos,
         look_around_timer |-> 0, pause_timer |-> 0, is_paused |-> FALSE,
         approaching_node |-> FALSE, buying_time |-> 0, buying_elapsed |-> 0,
         h_paths |-> <<>>, h_follow |-> None, h_steer |-> None, h_dry |-> 0]

\* shelf_targets + node_targets, or the door when both are empty
AllTargets(door_pos, shelf_targets, node_targets) ==
    LET shelves == IF Len(shelf_targets) > 0 THEN shelf_targets ELSE <<door_pos>>
    IN  shelves \o node_targets

\* ThiefCustomer(door_pos, shelf_targets, counter_targets, shelf_browsing_positions,
\*               tile_map, node_targets)
ThiefCustomer(id, door_pos, shelf_targets, shelf_browsing_positions, node_targets) ==
    {[Navigator("thief", id, door_pos, chosen_target, node_targets, shelf_browsing_positions)
         EXCEPT !.rng = rng] @@
     [max_health |-> 3, health |-> 3, knockback_velocity |-> <<0, 0>>, knockback_timer |-> 0,
      browsing_time |-> browsing_time, look_around_delay |-> look_around_delay,
      target_cash |-> None, target_cash_pos |-> None, stole_cash |-> FALSE] :
        rng \in Streams,
        chosen_target \in Choice(AllTargets(door_pos, shelf_targets, node_targets)),
        browsing_time \in Uniform(2000, 5000),
        look_around_delay \in Uniform(500, 2000)}

\* take_damage(amount): <<self, whether the customer died>>
take_damage(self, amount) ==
    IF self.health - amount <= 0
    THEN <<[self EXCEPT !.health = 0], TRUE>>
    ELSE <<[self EXCEPT !.health = self.health - amount], FALSE>>

\* apply_knockback(direction, force), direction a unit vector in hundredths
apply_knockback(self, direction, force) ==
    IF LengthSq(direction) > 0
    THEN [self EXCEPT !.knockback_velocity = <<direction[1] * force, direction[2] * force>>,
                      !.knockback_timer = 300]
    ELSE self

\* update, the knockback block
update_knockback(self, dt, solid_rects) ==
    IF self.knockback_timer > 0
    THEN LET velocity == self.knockback_velocity
             test_pos == <<self.position[1] + RoundDiv(velocity[1] * dt * FPS, 100000),
                           self.position[2] + RoundDiv(velocity[2] * dt * FPS, 100000)>>
             collision == \E tile_rect \in solid_rects :
                              colliderect(CustomerRect(test_pos), tile_rect)
             pushed == IF LengthSq(velocity) = 0 THEN self
                       ELSE IF ~collision THEN [self EXCEPT !.position = test_pos]
                       ELSE [self EXCEPT !.knockback_velocity = <<0, 0>>,
                                         !.knockback_timer = 0]
         IN  IF pushed.knockback_timer - dt <= 0
             THEN [pushed EXCEPT !.knockback_velocity = <<0, 0>>, !.knockback_timer = 0]
             ELSE [pushed EXCEPT !.knockback_timer = pushed.knockback_timer - dt,
                                 !.knockback_velocity =
                                     <<Trunc(pushed.knockback_velocity[1] * 9, 10),
                                       Trunc(pushed.knockback_velocity[2] * 9, 10)>>]
    ELSE self

\* a thief that goes for a coin whether there is one or not
Thief_searching_anyway(self, tm, cash_list) ==
    IF Len(cash_list) > 0
    THEN {<<_compute_path([self EXCEPT !.target_cash = cash_list[i],
                                       !.target_cash_pos = cash_list[i][2],
                                       !.state = "stealing"], tm, cash_list[i][2]),
            cash_list>> : i \in 1..Len(cash_list)}
    ELSE {<<[self EXCEPT !.state = "stealing", !.target_cash_pos = self.door_pos], cash_list>>}

\* state "searching": <<self, cash_items>> for each coin random.choice can return
Thief_searching(self, tm, cash_list) ==
    IF Len(cash_list) > 0
    THEN {<<_compute_path([self EXCEPT !.target_cash = cash_list[i],
                                       !.target_cash_pos = cash_list[i][2],
                                       !.state = "stealing"], tm, cash_list[i][2]),
            cash_list>> : i \in 1..Len(cash_list)}
    ELSE {<<_compute_path([self EXCEPT !.state = "leaving"], tm, self.leave_pos), cash_list>>}

\* a thief that takes the coin out of the list itself on arrival
Thief_stealing_grabs(self, tm, dt, solid_rects, cash_list) ==
    IF self.target_cash_pos = None
    THEN {<<_compute_path([self EXCEPT !.state = "leaving"], tm, self.leave_pos), cash_list>>}
    ELSE IF self.target_cash # None
            /\ ~\E i \in 1..Len(cash_list) : cash_list[i] = self.target_cash
    THEN {<<_compute_path([self EXCEPT !.target_cash = None, !.target_cash_pos = None,
                                       !.state = "leaving"], tm, self.leave_pos),
            cash_list>>}
    ELSE {IF r[2]
          THEN <<_compute_path([r[1] EXCEPT !.stole_cash = TRUE, !.state = "leaving",
                                            !.path = None, !.path_index = 0],
                               tm, self.leave_pos),
                 SelectSeq(cash_list, LAMBDA c : c # self.target_cash)>>
          ELSE <<r[1], cash_list>> :
          r \in {_follow_path(self, tm, dt, solid_rects, self.target_cash_pos,
                              (TILE_SIZE * 4) \div 10)}}

\* a thief that leaves when its coin is gone but keeps it as its target
Thief_stealing_sticky(self, tm, dt, solid_rects, cash_list) ==
    IF self.target_cash_pos = None
    THEN {<<_compute_path([self EXCEPT !.state = "leaving"], tm, self.leave_pos), cash_list>>}
    ELSE IF self.target_cash # None
            /\ ~\E i \in 1..Len(cash_list) : cash_list[i] = self.target_cash
    THEN {<<_compute_path([self EXCEPT !.state = "leaving"], tm, self.leave_pos), cash_list>>}
    ELSE {IF r[2]
          THEN <<_compute_path([r[1] EXCEPT !.stole_cash = TRUE, !.state = "leaving",
                                            !.path = None, !.path_index = 0],
                               tm, self.leave_pos),
                 cash_list>>
          ELSE <<r[1], cash_list>> :
          r \in {_follow_path(self, tm, dt, solid_rects, self.target_cash_pos,
                              (TILE_SIZE * 4) \div 10)}}

\* a thief that does not look whether its coin is still in the list
Thief_stealing_blind(self, tm, dt, solid_rects, cash_list) ==
    IF self.target_cash_pos = None
    THEN {<<_compute_path([self EXCEPT !.state = "leaving"], tm, self.leave_pos), cash_list>>}
    ELSE {IF r[2]
          THEN <<_compute_path([r[1] EXCEPT !.stole_cash = TRUE, !.state = "leaving",
                                            !.path = None, !.path_index = 0],
                               tm, self.leave_pos),
                 cash_list>>
          ELSE <<r[1], cash_list>> :
          r \in {_follow_path(self, tm, dt, solid_rects, self.target_cash_pos,
                              (TILE_SIZE * 4) \div 10)}}

\* state "stealing": <<self, cash_items>>
Thief_stealing(self, tm, dt, solid_rects, cash_list) ==
    IF self.target_cash_pos = None
    THEN {<<_compute_path([self EXCEPT !.state = "leaving"], tm, self.leave_pos), cash_list>>}
    ELSE IF self.target_cash # None
            /\ ~\E i \in 1..Len(cash_list) : cash_list[i] = self.target_cash
    THEN {<<_compute_path([self EXCEPT !.target_cash = None, !.target_cash_pos = None,
                                       !.state = "leaving"], tm, self.leave_pos),
            cash_list>>}
    ELSE {IF r[2]
          THEN <<_compute_path([r[1] EXCEPT !.stole_cash = TRUE, !.state = "leaving",
                                            !.path = None, !.path_index = 0],
                               tm, self.leave_pos),
                 cash_list>>
          ELSE <<r[1], cash_list>> :
          r \in {_follow_path(self, tm, dt, solid_rects, self.target_cash_pos,
                              (TILE_SIZE * 4) \div 10)}}

\* state "browsing" of a thief
Thief_browsing(self, tm, dt, solid_rects) ==
    LET browsed == [self EXCEPT !.browsing_elapsed = self.browsing_elapsed + dt]
    IN  IF browsed.browsing_elapsed >= browsed.browsing_time
        THEN {[browsed EXCEPT !.state = "searching", !.path = None, !.path_index = 0]}
        ELSE update_browsing_walk(browsed, tm, dt, solid_rects)

\* a thief that counts its purchase at the node as a theft
Thief_buying_steals(self, tm, dt) ==
    LET bought == [self EXCEPT !.buying_elapsed = self.buying_elapsed + dt]
    IN  IF bought.buying_elapsed >= bought.buying_time
        THEN {LeaveNode([bought EXCEPT !.stole_cash = TRUE], tm)}
        ELSE {bought}

\* state "buying" of a thief
Thief_buying(self, tm, dt) ==
    LET bought == [self EXCEPT !.buying_elapsed = self.buying_elapsed + dt]
    IN  IF bought.buying_elapsed >= bought.buying_time THEN {LeaveNode(bought, tm)}
        ELSE {bought}

\* an update that applies the knockback before it looks at the health
ThiefCustomer_update_late(self, tm, dt, solid_rects, cash_list) ==
    LET fresh == [self EXCEPT !.h_paths = <<>>, !.h_follow = None, !.h_steer = None]
        Keep(outcomes) == {<<o, cash_list>> : o \in outcomes}
    IN  IF fresh.health <= 0
        THEN {<<[update_knockback(fresh, dt, solid_rects) EXCEPT !.finished = TRUE],
                cash_list>>}
        ELSE UNION {
            IF hit.state = "entering" THEN Keep(update_entering(hit, tm, dt, solid_rects))
            ELSE IF hit.state = "to_node" THEN Keep(update_to_node(hit, tm, dt, solid_rects))
            ELSE IF hit.state = "looking_at_node" THEN Keep(update_looking_at_node(hit, dt))
            ELSE IF hit.state = "buying" THEN Keep(Thief_buying(hit, tm, dt))
            ELSE IF hit.state = "to_shelf"
                 THEN Keep(update_to_shelf(hit, tm, dt, solid_rects))
            ELSE IF hit.state = "browsing"
                 THEN Keep(Thief_browsing(hit, tm, dt, solid_rects))
            ELSE IF hit.state = "searching" THEN Thief_searching(hit, tm, cash_list)
            ELSE IF hit.state = "stealing"
                 THEN Thief_stealing(hit, tm, dt, solid_rects, cash_list)
            ELSE IF hit.state = "leaving" THEN Keep(update_leaving(hit, tm, dt, solid_rects))
            ELSE {<<hit, cash_list>>} :
            hit \in {update_knockback(fresh, dt, solid_rects)}}

\* ThiefCustomer.update(dt, solid_rects, cash_items, door_rects): the set of
\* pairs <<self, cash_list>> the call can end in
ThiefCustomer_update(self, tm, dt, solid_rects, cash_list) ==
    LET fresh == [self EXCEPT !.h_paths = <<>>, !.h_follow = None, !.h_steer = None]
        Keep(outcomes) == {<<o, cash_list>> : o \in outcomes}
    IN  IF fresh.health <= 0 THEN {<<[fresh EXCEPT !.finished = TRUE], cash_list>>}
        ELSE UNION {
            IF hit.state = "entering" THEN Keep(update_entering(hit, tm, dt, solid_rects))
            ELSE IF hit.state = "to_node" THEN Keep(update_to_node(hit, tm, dt, solid_rects))
            ELSE IF hit.state = "looking_at_node" THEN Keep(update_looking_at_node(hit, dt))
            ELSE IF hit.state = "buying" THEN Keep(Thief_buying(hit, tm, dt))
            ELSE IF hit.state = "to_shelf"
                 THEN Keep(update_to_shelf(hit, tm, dt, solid_rects))
            ELSE IF hit.state = "browsing"
                 THEN Keep(Thief_browsing(hit, tm, dt, solid_rects))
            ELSE IF hit.state = "searching" THEN Thief_searching(hit, tm, cash_list)
            ELSE IF hit.state = "stealing"
                 THEN Thief_stealing(hit, tm, dt, solid_rects, cash_list)
            ELSE IF hit.state = "leaving" THEN Keep(update_leaving(hit, tm, dt, solid_rects))
            ELSE {<<hit, cash_list>>} :
            hit \in {update_knockback(fresh, dt, solid_rects)}}


(***************************************************************************)
(* src/entities/litter_customer.py                                         *)
(***************************************************************************)
\* LitterCustomer(door_pos, shelf_targets, counter_targets, shelf_browsing_positions,
\*                tile_map, node_targets)
LitterCustomer(id, door_pos, shelf_targets, shelf_browsing_positions, node_targets) ==
    {[Navigator("litter", id, door_pos, chosen_target, node_targets, shelf_browsing_positions)
         EXCEPT !.rng = rng] @@
     [browsing_time |-> browsing_time, look_around_delay |-> look_around_delay,
      drop_litter |-> FALSE, litter_pos |-> None,
      litter_count_target |-> litter_count_target, litter_count_dropped |-> 0,
      litter_drop_timer |-> 0, litter_drop_delay |-> litter_drop_delay,
      _last_litter_drop_pos |-> None] :
        rng \in Streams,
        chosen_target \in Choice(AllTargets(door_pos, shelf_targets, node_targets)),
        browsing_time \in Uniform(10000, 20000),
        look_around_delay \in Uniform(500, 2000),
        litter_count_target \in {5, 10},
        litter_drop_delay \in Uniform(800, 2000)}

\* _is_on_floor_tile()
_is_on_floor_tile(self, tm) ==
    tile_at(tm, self.position[1] \div TILE_SIZE, self.position[2] \div TILE_SIZE) = TILE_FLOOR

\* the drop block without the look at the previous drop
Litter_drop_stacks(self, tm, counted) ==
    IF self.litter_drop_timer >= self.litter_drop_delay
       /\ _is_on_floor_tile(self, tm)
       /\ (counted => self.litter_count_dropped < self.litter_count_target)
    THEN {[self EXCEPT !.drop_litter = TRUE, !.litter_pos = self.position,
                       !.litter_count_dropped = self.litter_count_dropped + 1,
                       !.litter_drop_timer = 0,
                       !.litter_drop_delay = UniformOf(self, 800, 2000),
                       !._last_litter_drop_pos = self.position]}
    ELSE {self}

\* the drop block of the states "buying" and "browsing": past the drop delay,
\* on a floor tile and 0.8 tile from the last drop, raise drop_litter
Litter_drop(self, tm, counted) ==
    IF self.litter_drop_timer >= self.litter_drop_delay
       /\ _is_on_floor_tile(self, tm)
       /\ ~(self._last_litter_drop_pos # None
            /\ Within(self.position, self._last_litter_drop_pos, (TILE_SIZE * 8) \div 10))
       /\ (counted => self.litter_count_dropped < self.litter_count_target)
    THEN {[self EXCEPT !.drop_litter = TRUE, !.litter_pos = self.position,
                       !.litter_count_dropped = self.litter_count_dropped + 1,
                       !.litter_drop_timer = 0,
                       !.litter_drop_delay = UniformOf(self, 800, 2000),
                       !._last_litter_drop_pos = self.position]}
    ELSE {self}

\* state "buying" of a litterer
Litter_buying(self, tm, dt) ==
    LET bought == [self EXCEPT !.buying_elapsed = self.buying_elapsed + dt,
                               !.litter_drop_timer = self.litter_drop_timer + dt]
    IN  {IF d.buying_elapsed >= d.buying_time THEN LeaveNode(d, tm) ELSE d :
            d \in Litter_drop(bought, tm, TRUE)}

\* state "browsing" of a litterer
Litter_browsing(self, tm, dt, solid_rects) ==
    LET browsed == [self EXCEPT !.browsing_elapsed = self.browsing_elapsed + dt,
                                !.litter_drop_timer = self.litter_drop_timer + dt]
        done == browsed.litter_count_dropped >= browsed.litter_count_target
    IN  UNION {IF done \/ d.browsing_elapsed >= d.browsing_time
               THEN {_compute_path([d EXCEPT !.state = "leaving", !.path = None,
                                             !.path_index = 0], tm, d.leave_pos)}
               ELSE update_browsing_walk(d, tm, dt, solid_rects) :
               d \in IF done THEN {browsed} ELSE Litter_drop(browsed, tm, FALSE)}

\* LitterCustomer.update(dt, solid_rects, door_rects): the set of outcomes
LitterCustomer_update(self, tm, dt, solid_rects) ==
    LET fresh == [self EXCEPT !.h_paths = <<>>, !.h_follow = None, !.h_steer = None]
    IN  IF fresh.state = "entering" THEN update_entering(fresh, tm, dt, solid_rects)
        ELSE IF fresh.state = "to_node" THEN update_to_node(fresh, tm, dt, solid_rects)
        ELSE IF fresh.state = "looking_at_node" THEN update_looking_at_node(fresh, dt)
        ELSE IF fresh.state = "buying" THEN Litter_buying(fresh, tm, dt)
        ELSE IF fresh.state = "to_shelf" THEN update_to_shelf(fresh, tm, dt, solid_rects)
        ELSE IF fresh.state = "browsing" THEN Litter_browsing(fresh, tm, dt, solid_rects)
        ELSE IF fresh.state = "leaving" THEN update_leaving(fresh, tm, dt, solid_rects)
        ELSE {fresh}

(***************************************************************************)
(* src/entities/customer.py                                                *)
(***************************************************************************)
\* Customer(door_pos, shelf_targets, counter_targets)
Customer(id, door_pos, shelf_targets) ==
    {[Attributes("regular", id, door_pos,
                 <<door_pos[1] + (TILE_SIZE * 3) \div 4, door_pos[2]>>) EXCEPT !.rng = rng] @@
     [shelf_pos |-> shelf_pos, browsing_time |-> browsing_time,
      browsing_radius |-> (TILE_SIZE * 3) \div 2, drop_cash |-> FALSE] :
        rng \in Streams,
        shelf_pos \in Choice(IF Len(shelf_targets) > 0 THEN shelf_targets ELSE <<door_pos>>),
        browsing_time \in Uniform(3000, 8000)}

\* Customer._move_towards: the X axis first, then the Y axis, each step taken
\* back when the customer's rect hits an obstacle
Customer_move_towards(self, target, dt, solid_rects, proximity_threshold) ==
    LET direction == VSub(target, self.position)
        distance == Length(direction)
        Hits(pos) == \E tile_rect \in solid_rects : colliderect(CustomerRect(pos), tile_rect)
        stepped_x == <<self.position[1] + RoundDiv(direction[1] * StepOf(dt), distance * 100),
                       self.position[2]>>
        after_x == IF Hits(stepped_x) THEN self.position ELSE stepped_x
        stepped_y == <<after_x[1],
                       after_x[2] + RoundDiv(direction[2] * StepOf(dt), distance * 100)>>
        after_y == IF Hits(stepped_y) THEN after_x ELSE stepped_y
    IN  IF LengthSq(direction) < proximity_threshold * proximity_threshold THEN <<self, TRUE>>
        ELSE IF LengthSq(direction) = 0 THEN <<[self EXCEPT !.position = target], TRUE>>
        ELSE <<[self EXCEPT !.position = after_y],
               Within(target, after_y, proximity_threshold)>>

\* Customer._pick_new_browsing_target: a point 0.8 tile to browsing_radius
\* from the shelf, at any angle
Customer_pick_new_browsing_target(self) ==
    LET near == (TILE_SIZE * 8) \div 10
        diag == (self.browsing_radius * 7) \div 10
        o == ChoiceOf(self, <<<<near, 0>>, <<diag, diag>>, <<0, near>>, <<-diag, diag>>,
                               <<-near, 0>>, <<-diag, -diag>>, <<0, -near>>, <<diag, -diag>>>>)
    IN  {[self EXCEPT !.browsing_target = <<self.shelf_pos[1] + o[1], self.shelf_pos[2] + o[2]>>]}

\* Customer.update(dt, solid_rects): the set of outcomes
Customer_update(self, dt, solid_rects) ==
    IF self.state = "entering"
    THEN LET r == Customer_move_towards(self, self.door_pos, dt, solid_rects,
                                        (TILE_SIZE * 3) \div 10)
         IN  {IF r[2] THEN [r[1] EXCEPT !.state = "to_shelf"] ELSE r[1]}
    ELSE IF self.state = "to_shelf"
    THEN IF LengthSq(VSub(self.position, self.shelf_pos)) <= TILE_SIZE * TILE_SIZE
         THEN Customer_pick_new_browsing_target(
                  [self EXCEPT !.state = "browsing", !.browsing_elapsed = 0])
         ELSE {Customer_move_towards(self, self.shelf_pos, dt, solid_rects, TILE_SIZE)[1]}
    ELSE IF self.state = "browsing"
    THEN LET browsed == [self EXCEPT !.browsing_elapsed = self.browsing_elapsed + dt]
         IN  IF browsed.browsing_elapsed >= browsed.browsing_time
             THEN {[browsed EXCEPT !.drop_cash = TRUE, !.state = "leaving"]}
             ELSE IF browsed.browsing_target = None
                  THEN Customer_pick_new_browsing_target(browsed)
                  ELSE LET r == Customer_move_towards(browsed, browsed.browsing_target, dt,
                                                      solid_rects, (TILE_SIZE * 4) \div 10)
                       IN  IF r[2] THEN Customer_pick_new_browsing_target(r[1]) ELSE {r[1]}
    ELSE IF self.state = "leaving"
    THEN LET r == Customer_move_towards(self, self.leave_pos, dt, solid_rects,
                                        (TILE_SIZE * 3) \div 10)
         IN  {[r[1] EXCEPT !.finished = r[2] \/ self.finished]}
    ELSE {self}


(***************************************************************************)
(* src/map/tile_map.py and GameState.__init__: the positions the customers *)
(* are built from                                                          *)
(***************************************************************************)
\* TileMap.find_tile_centers(tile_code), from the k-th tile in row-major order on
RECURSIVE TileCentersFrom(_, _, _)
TileCentersFrom(tm, tile_code, k) ==
    IF k >= MapRows(tm) * MapCols(tm) THEN <<>>
    ELSE LET col == k % MapCols(tm)
             row == k \div MapCols(tm)
         IN  (IF tile_at(tm, col, row) = tile_code THEN <<tile_to_world(col, row)>> ELSE <<>>)
             \o TileCentersFrom(tm, tile_code, k + 1)

find_tile_centers(tm, tile_code) == TileCentersFrom(tm, tile_code, 0)

\* TileMap.find_floor_tiles_around_shelf_group, from the k-th offset pair on
RECURSIVE FloorTilesFrom(_, _, _, _)
FloorTilesFrom(tm, center, search_radius, k) ==
    LET side == 2 * search_radius + 1
        row == center[2] \div TILE_SIZE + (k \div side) - search_radius
        col == center[1] \div TILE_SIZE + (k % side) - search_radius
    IN  IF k >= side * side THEN <<>>
        ELSE (IF tile_at(tm, col, row) = TILE_FLOOR THEN <<tile_to_world(col, row)>> ELSE <<>>)
             \o FloorTilesFrom(tm, center, search_radius, k + 1)

find_floor_tiles_around_shelf_group(tm, center, search_radius) ==
    FloorTilesFrom(tm, center, search_radius, 0)

\* the flood fill of _compute_shelf_groups: the shelf tiles joined to the group
RECURSIVE ShelfFlood(_, _)
ShelfFlood(tm, group) ==
    LET more == {c \in UNION {{<<g[1] + 1, g[2]>>, <<g[1] - 1, g[2]>>,
                               <<g[1], g[2] + 1>>, <<g[1], g[2] - 1>>} : g \in group} :
                    InBounds(tm, c) /\ tile_at(tm, c[1], c[2]) = TILE_SHELF} \ group
    IN  IF more = {} THEN group ELSE ShelfFlood(tm, group \cup more)

\* the sum of the x (i = 1) or y (i = 2) pixel centres of a set of tiles
RECURSIVE SumCentres(_, _)
SumCentres(cells, i) ==
    IF cells = {} THEN 0
    ELSE LET c == CHOOSE c \in cells : TRUE
         IN  tile_to_world(c[1], c[2])[i] + SumCentres(cells \ {c}, i)

\* _compute_shelf_groups(), from the k-th tile on: (center, browsing_positions) pairs
RECURSIVE ShelfGroupsFrom(_, _, _)
ShelfGroupsFrom(tm, k, visited) ==
    LET cell == <<k % MapCols(tm), k \div MapCols(tm)>>
        group == ShelfFlood(tm, {cell})
        center == <<RoundDiv(SumCentres(group, 1), Cardinality(group)),
                    RoundDiv(SumCentres(group, 2), Cardinality(group))>>
        near == find_floor_tiles_around_shelf_group(tm, center, 3)
        browsing_positions == IF Len(near) > 0 THEN near
                              ELSE find_floor_tiles_around_shelf_group(tm, center, 5)
    IN  IF k >= MapRows(tm) * MapCols(tm) THEN <<>>
        ELSE IF cell \in visited \/ tile_at(tm, cell[1], cell[2]) # TILE_SHELF
        THEN ShelfGroupsFrom(tm, k + 1, visited)
        ELSE <<<<center, browsing_positions>>>> \o ShelfGroupsFrom(tm, k + 1, visited \cup group)

_compute_shelf_groups(tm) == ShelfGroupsFrom(tm, 0, {})

\* what GameState.__init__ hands to the spawner
StoreTargets(tm) ==
    LET door_centers == find_tile_centers(tm, TILE_DOOR)
        shelf_groups == _compute_shelf_groups(tm)
    IN  [door_pos |-> IF Len(door_centers) > 0 THEN door_centers[1]
                      ELSE <<(MapCols(tm) * TILE_SIZE) \div 2, (MapRows(tm) * TILE_SIZE) \div 2>>,
         shelf_centers |-> [i \in 1..Len(shelf_groups) |-> shelf_groups[i][1]],
         shelf_browsing_positions |->
             [c \in {shelf_groups[i][1] : i \in 1..Len(shelf_groups)} |->
                 (CHOOSE g \in {shelf_groups[i] : i \in 1..Len(shelf_groups)} : g[1] = c)[2]],
         node_centers |-> find_tile_centers(tm, TILE_NODE)]


(***************************************************************************)
(* SpecUnit: one customer object of the store, built by its constructor    *)
(* from the store's door, shelves and nodes and updated by calls of its    *)
(* own update method, each with the obstacle rects around the customer and *)
(* the same dt.  The thief is handed the currency list of the moment.      *)
(* game.h_expired_empty and game.h_searched_empty are history: whether the *)
(* thief's browsing time expired in an update that was handed an empty     *)
(* list, and whether its update in state "searching" was handed one.       *)
(***************************************************************************)
\* the store of the runs: a door in the east wall, a group of two shelf
\* tiles, a single shelf tile and a node
SmallStore ==
    <<<<"#", "#", "#", "#", "#", "#", "#">>,
      <<"#", ".", ".", ".", ".", ".", "D">>,
      <<"#", ".", "S", "S", ".", "N", "#">>,
      <<"#", ".", ".", ".", "S", ".", "#">>,
      <<"#", "#", "#", "#", "#", "#", "#">>>>

\* the dt of the calls of a run, in milliseconds
DtChoices == {200, 260}

\* the coin that can lie in the store: a Cash at the centre of a floor tile
UnitCash == <<1, tile_to_world(1, 3)>>

\* no find_path call is under test
NoCall == [start |-> <<0, 0>>, goal |-> <<0, 0>>, max_path_length |-> DEFAULT_MAX_PATH_LENGTH,
           called |-> TRUE, result |-> None]

\* the customers the three constructors can build for a store
BuiltFor(tm, id) ==
    UNION {ThiefCustomer(id, t.door_pos, t.shelf_centers, t.shelf_browsing_positions,
                         t.node_centers)
           \cup LitterCustomer(id, t.door_pos, t.shelf_centers, t.shelf_browsing_positions,
                               t.node_centers)
           \cup Customer(id, t.door_pos, t.shelf_centers) :
           t \in {StoreTargets(tm)}}

Built(id) == BuiltFor(SmallStore, id)

InitUnit ==
    /\ tile_map = SmallStore
    /\ pf = NoCall
    /\ \E c \in Built(1) : customers = <<c>>
    /\ cash_items \in {<<>>, <<UnitCash>>}
    /\ litter_items = <<>>
    /\ \E dt \in DtChoices : game = [game_state |-> "unit", dt |-> dt,
                                     h_expired_empty |-> FALSE, h_searched_empty |-> FALSE]

\* customer.update(dt, rects, cash_items) on a thief
UnitThiefUpdate ==
    /\ customers[1].kind = "thief" /\ ~customers[1].finished
    /\ \E out \in ThiefCustomer_update(
                      customers[1], tile_map, game.dt,
                      get_customer_solid_tiles_around(CustomerRect(customers[1].position),
                                                      tile_map),
                      cash_items) :
          /\ customers' = <<out[1]>>
          /\ cash_items' = out[2]
          /\ game' = [game EXCEPT
                         !.h_expired_empty =
                             @ \/ (customers[1].state = "browsing"
                                   /\ out[1].state = "searching" /\ cash_items = <<>>),
                         !.h_searched_empty =
                             @ \/ (customers[1].state = "searching" /\ cash_items = <<>>)]
    /\ UNCHANGED <<tile_map, pf, litter_items>>

\* a litterer whose update marks the tile it drops litter on in the tile map
UnitLitterUpdate_marks ==
    /\ customers[1].kind = "litter" /\ ~customers[1].finished
    /\ \E out \in LitterCustomer_update(
                      customers[1], tile_map, game.dt,
                      get_customer_solid_tiles_around(CustomerRect(customers[1].position),
                                                      tile_map)) :
          /\ customers' = <<out>>
          /\ tile_map' = IF out.litter_count_dropped > customers[1].litter_count_dropped
                         THEN [tile_map EXCEPT ![out.position[2] \div TILE_SIZE + 1]
                                                  [out.position[1] \div TILE_SIZE + 1] = "L"]
                         ELSE tile_map
    /\ UNCHANGED <<pf, cash_items, litter_items, game>>

\* customer.update(dt, rects) on a litterer
UnitLitterUpdate ==
    /\ customers[1].kind = "litter" /\ ~customers[1].finished
    /\ \E out \in LitterCustomer_update(
                      customers[1], tile_map, game.dt,
                      get_customer_solid_tiles_around(CustomerRect(customers[1].position),
                                                      tile_map)) :
          customers' = <<out>>
    /\ UNCHANGED <<tile_map, pf, cash_items, litter_items, game>>

\* customer.update(dt, rects) on a regular customer
UnitCustomerUpdate ==
    /\ customers[1].kind = "regular" /\ ~customers[1].finished
    /\ \E out \in Customer_update(
                      customers[1], game.dt,
                      get_customer_solid_tiles_around(CustomerRect(customers[1].position),
                                                      tile_map)) :
          customers' = <<out>>
    /\ UNCHANGED <<tile_map, pf, cash_items, litter_items, game>>

\* between two updates of a thief a coin is dropped in the store or taken from it
UnitCashChange ==
    /\ customers[1].kind = "thief" /\ ~customers[1].finished
    /\ cash_items' = IF cash_items = <<>> THEN <<UnitCash>> ELSE <<>>
    /\ UNCHANGED <<tile_map, pf, customers, litter_items, game>>

NextUnit == UnitThiefUpdate \/ UnitLitterUpdate \/ UnitCustomerUpdate \/ UnitCashChange

SpecUnit == InitUnit /\ [][NextUnit]_vars


(***************************************************************************)
(* SpecStrike: the calls of SpecUnit, and between them the player's strike *)
(* on a thief, as the loop of _handle_player_attack carries it out.  The   *)
(* thief that dies stays in the list and is updated again.  The player     *)
(* strikes once, or two or three times in a row.                           *)
(***************************************************************************)
\* a strike after which the customer turns to the door with the path it has
StrikeCustomer_keeps_path(customer, tm, knockback_direction) ==
    LET hit == take_damage(apply_knockback(customer, knockback_direction, TILE_SIZE \div 4), 1)
    IN  IF hit[2] \/ hit[1].state = "leaving" THEN hit
        ELSE <<[hit[1] EXCEPT !.state = "leaving"], FALSE>>

\* a strike after which the customer that lives goes on with what it was doing
StrikeCustomer_goes_on(customer, tm, knockback_direction) ==
    take_damage(apply_knockback(customer, knockback_direction, TILE_SIZE \div 4), 1)

\* _handle_player_attack(), the body of the loop for a customer under the
\* player's rect: knockback of a quarter tile, 1 damage, and a customer that
\* lives flees: <<customer, is_dead>>
StrikeCustomer(customer, tm, knockback_direction) ==
    LET hit == take_damage(apply_knockback(customer, knockback_direction, TILE_SIZE \div 4), 1)
    IN  IF hit[2] \/ hit[1].state = "leaving" THEN hit
        ELSE <<_compute_path([hit[1] EXCEPT !.state = "leaving", !.path = None,
                                            !.path_index = 0], tm, hit[1].leave_pos),
               FALSE>>

\* the unit vector, in hundredths, from a player east of the customer to the
\* customer
StrikeDirections == {<<-100, 0>>}

\* the player strikes the thief: a first time between any two updates, and
\* again before the thief's next update
UnitStrike ==
    /\ customers[1].kind = "thief" /\ ~customers[1].finished /\ customers[1].health > 0
    /\ customers[1].health = customers[1].max_health \/ customers[1].knockback_timer = 300
    /\ \E knockback_direction \in StrikeDirections :
          customers' = <<StrikeCustomer(customers[1], tile_map, knockback_direction)[1]>>
    /\ UNCHANGED <<tile_map, pf, cash_items, litter_items, game>>

NextStrike == NextUnit \/ UnitStrike

SpecStrike == InitUnit /\ [][NextStrike]_vars


(***************************************************************************)
(* SpecNav: the same calls on one customer object of a store whose map     *)
(* leaves the pathfinder without a route or the constructors without a     *)
(* shelf or a node to choose.                                              *)
(***************************************************************************)
\* a shelf tile splits the floor in two, and walls enclose the node
WalledStore ==
    <<<<"#", "#", "#", "#", "#", "#", "#">>,
      <<"#", ".", ".", "S", ".", ".", "D">>,
      <<"#", ".", "#", "N", "#", ".", "#">>,
      <<"#", ".", "#", "#", "#", ".", "#">>,
      <<"#", "#", "#", "#", "#", "#", "#">>>>

\* a node and no shelf
NodeStore ==
    <<<<"#", "#", "#", "#", "#", "#", "#">>,
      <<"#", ".", ".", ".", ".", ".", "D">>,
      <<"#", ".", ".", "N", ".", ".", "#">>,
      <<"#", ".", ".", ".", ".", ".", "#">>,
      <<"#", "#", "#", "#", "#", "#", "#">>>>

\* neither a shelf nor a node
BareStore ==
    <<<<"#", "#", "#", "#", "#", "#", "#">>,
      <<"#", ".", ".", ".", ".", ".", "D">>,
      <<"#", ".", ".", ".", ".", ".", "#">>,
      <<"#", ".", ".", ".", ".", ".", "#">>,
      <<"#", "#", "#", "#", "#", "#", "#">>>>

NavStores == {WalledStore, NodeStore, BareStore}

InitNav ==
    /\ tile_map \in NavStores
    /\ pf = NoCall
    /\ \E c \in BuiltFor(tile_map, 1) : customers = <<c>>
    /\ cash_items \in {<<>>, <<UnitCash>>}
    /\ litter_items = <<>>
    /\ \E dt \in DtChoices : game = [game_state |-> "unit", dt |-> dt,
                                     h_expired_empty |-> FALSE, h_searched_empty |-> FALSE]

SpecNav == InitNav /\ [][NextUnit]_vars


(***************************************************************************)
(* SpecMove: _move_towards called again and again on one customer, with a  *)
(* fixed target, no obstacle rects and the same dt and threshold, until it *)
(* returns True.  game.h_before is the position before the latest call and *)
(* game.h_reached the value it returned; game.h_start is the position      *)
(* before the first call.                                                  *)
(***************************************************************************)
\* the target and the positions the customer starts from
MoveTarget == <<400, 300>>
MoveStarts ==
    {<<MoveTarget[1] - dx, MoveTarget[2] - dy>> : dx \in {0, 30, 40, 100, 250},
                                                  dy \in {0, 40, 100}}

\* the dt of the calls: a slow frame and a stalled one
MoveDts == {200, 400}

\* the thresholds of the callers: 0.3 tile and 0.5 tile
MoveThresholds == {(TILE_SIZE * 3) \div 10, TILE_SIZE \div 2}

InitMove ==
    /\ tile_map = BareStore
    /\ pf = NoCall
    /\ \E c \in {b \in BuiltFor(BareStore, 1) : b.kind # "litter" /\ b.rng = 1},
          start \in MoveStarts :
          customers = <<[c EXCEPT !.position = start]>>
    /\ cash_items = <<>>
    /\ litter_items = <<>>
    /\ \E dt \in MoveDts, threshold \in MoveThresholds :
          game = [game_state |-> "move", dt |-> dt, target |-> MoveTarget,
                  threshold |-> threshold, calls |-> 0, h_start |-> customers[1].position,
                  h_before |-> customers[1].position, h_reached |-> FALSE]

\* self._move_towards(target, dt, [], proximity_threshold) on a thief
CallMoveTowards ==
    /\ customers[1].kind = "thief" /\ ~game.h_reached /\ game.calls < MaxCalls
    /\ LET r == _move_towards(customers[1], game.target, game.dt, {}, game.threshold)
       IN  /\ customers' = <<r[1]>>
           /\ game' = [game EXCEPT !.calls = @ + 1, !.h_before = customers[1].position,
                                    !.h_reached = r[2]]
    /\ UNCHANGED <<tile_map, pf, cash_items, litter_items>>

\* self._move_towards(target, dt, [], proximity_threshold) on a regular customer
CallCustomerMoveTowards ==
    /\ customers[1].kind = "regular" /\ ~game.h_reached /\ game.calls < MaxCalls
    /\ LET r == Customer_move_towards(customers[1], game.target, game.dt, {},
                                      game.threshold)
       IN  /\ customers' = <<r[1]>>
           /\ game' = [game EXCEPT !.calls = @ + 1, !.h_before = customers[1].position,
                                    !.h_reached = r[2]]
    /\ UNCHANGED <<tile_map, pf, cash_items, litter_items>>

NextMove == CallMoveTowards \/ CallCustomerMoveTowards

SpecMove == InitMove /\ [][NextMove]_vars


(***************************************************************************)
(* src/game/game_state.py: GameState.update from the day timer to the day  *)
(* over sequence, and the player's attack.  A world w is the record of the *)
(* customers, cash_items, litter_items and game of a GameState.  A call    *)
(* that raises stops the program: game.fault names the call, and the       *)
(* effects up to it remain.  The player stands still; it is the first day, *)
(* and the player is in the store.  game.h_taken is history: the coins     *)
(* taken, each as <<coin, taker, whether the coin was in the list>> with   *)
(* taker 0 for the player and the customer's identity for a thief; and     *)
(* game.h_gone is the identities of the customers removed from the list.   *)
(***************************************************************************)
PlayerRect(player) ==
    Rect(player[1] - PLAYER_RADIUS, player[2] - PLAYER_RADIUS,
         PLAYER_RADIUS * 2, PLAYER_RADIUS * 2)

\* the rect of update() around a coin
CoinRect(coin) ==
    LET coin_size == TILE_SIZE \div 4
    IN  Rect(Trunc(2 * coin[2][1] - coin_size, 2), Trunc(2 * coin[2][2] - coin_size, 2),
             coin_size, coin_size)

Raise(w, call) == [w EXCEPT !.game.fault = call]

\* the day timer: at the end of the day every customer is sent to the door
UpdateDayTimer(w) ==
    IF w.game.game_state # "playing" THEN w
    ELSE LET day_timer == w.game.day_timer + w.game.dt
         IN  IF day_timer >= DAY_DURATION
             THEN [w EXCEPT !.game.day_timer = day_timer,
                            !.game.game_state = "waiting_for_customers",
                            !.customers =
                                [i \in 1..Len(w.customers) |->
                                    LET customer == w.customers[i]
                                    IN  IF customer.state = "leaving" THEN customer
                                        ELSE IF customer.kind = "regular"
                                        THEN [customer EXCEPT !.state = "leaving"]
                                        ELSE [customer EXCEPT !.state = "leaving",
                                                              !.path = None,
                                                              !.path_index = 0]]]
             ELSE [w EXCEPT !.game.day_timer = day_timer]

\* the coins under the player are collected
CollectCoins(w) ==
    LET Under(coin) == colliderect(PlayerRect(w.game.player), CoinRect(coin))
        coins_to_remove == SelectSeq(w.cash_items, Under)
    IN  [w EXCEPT !.cash_items = SelectSeq(w.cash_items, LAMBDA coin : ~Under(coin)),
                  !.game.collected_coins = @ + Len(coins_to_remove),
                  !.game.h_taken = @ \o [k \in 1..Len(coins_to_remove) |->
                                            <<coins_to_remove[k][1], 0, TRUE>>]]

\* self.spawner.update(dt, self.customers, spawn_ban_active=spawn_ban_active):
\* CustomerSpawner.update takes no spawn_ban_active
SpawnCustomers(w) ==
    IF w.game.game_state = "playing" THEN Raise(w, "spawner.update") ELSE w

\* list.remove(coin)
RemoveCoin(coins, coin) ==
    LET first == CHOOSE k \in 1..Len(coins) :
                     coins[k] = coin /\ \A j \in 1..(k - 1) : coins[j] # coin
    IN  [k \in 1..(Len(coins) - 1) |-> IF k < first THEN coins[k] ELSE coins[k + 1]]

\* the driver's part after the update of the thief at index i
AfterThiefUpdate(w, i, thief, coins) ==
    LET taken == thief.stole_cash /\ thief.target_cash # None
        there == \E k \in 1..Len(coins) : coins[k] = thief.target_cash
    IN  IF taken
        THEN [w EXCEPT !.cash_items = IF there THEN RemoveCoin(coins, thief.target_cash)
                                      ELSE coins,
                       !.customers[i] = [thief EXCEPT !.stole_cash = FALSE,
                                                      !.target_cash = None],
                       !.game.h_taken = Append(@, <<thief.target_cash[1], thief.id, there>>)]
        ELSE [w EXCEPT !.cash_items = coins, !.customers[i] = thief]

\* for customer in self.customers, from the customer at index i on.  The
\* calls on a litterer and on a regular customer pass use_player_speed,
\* which LitterCustomer.update and Customer.update do not take.
RECURSIVE UpdateCustomers(_, _, _)
UpdateCustomers(w, tm, i) ==
    IF i > Len(w.customers) THEN {w}
    ELSE LET customer == w.customers[i]
             customer_obstacle_rects ==
                 get_customer_solid_tiles_around(CustomerRect(customer.position), tm)
         IN  IF customer.kind = "thief"
             THEN UNION {UpdateCustomers(AfterThiefUpdate(w, i, out[1], out[2]), tm, i + 1) :
                            out \in ThiefCustomer_update(customer, tm, w.game.dt,
                                                         customer_obstacle_rects,
                                                         w.cash_items)}
             ELSE IF customer.kind = "litter"
             THEN {Raise(w, "LitterCustomer.update")}
             ELSE {Raise(w, "Customer.update")}

\* a driver that keeps the customers that have left
RemoveFinished_never(w) == w

\* self.customers = [c for c in self.customers if not c.finished]
RemoveFinished(w) ==
    [w EXCEPT !.customers = SelectSeq(w.customers, LAMBDA c : ~c.finished),
              !.game.h_gone = @ \cup {w.customers[i].id : i \in
                                        {i \in 1..Len(w.customers) : w.customers[i].finished}}]

\* the day over sequence
DayOver(w) ==
    IF w.game.game_state = "waiting_for_customers"
    THEN IF Len(w.customers) = 0
         THEN [w EXCEPT !.game.game_state = "collection_time", !.game.collection_timer = 0]
         ELSE w
    ELSE IF w.game.game_state = "collection_time"
    THEN IF w.game.collection_timer + w.game.dt >= 5000
         THEN [w EXCEPT !.game.collection_timer = @ + w.game.dt,
                        !.game.game_state = "day_over_animation"]
         ELSE [w EXCEPT !.game.collection_timer = @ + w.game.dt]
    ELSE w

\* GameState.update(dt): the worlds the call can end in
GameState_update(w, tm) ==
    LET spawned == SpawnCustomers(CollectCoins(UpdateDayTimer(w)))
    IN  IF spawned.game.fault # "none" THEN {spawned}
        ELSE {IF u.game.fault # "none" THEN u ELSE DayOver(RemoveFinished(u)) :
                 u \in UpdateCustomers(spawned, tm, 1)}

\* the unit vector, in hundredths, from the player to the customer; a random
\* one when the customer stands on the player
KnockbackDirections(player, position) ==
    LET away == VSub(position, player)
    IN  IF LengthSq(away) > 0
        THEN {<<RoundDiv(away[1] * 100, Length(away)), RoundDiv(away[2] * 100, Length(away))>>}
        ELSE {<<100, 0>>, <<0, 100>>, <<-100, 0>>, <<0, -100>>}

\* _handle_customer_death(customer, was_regular) for the customers of the
\* given identities, none of them a regular one
RECURSIVE _handle_customer_death(_, _)
_handle_customer_death(w, customers_to_remove) ==
    IF customers_to_remove = <<>> THEN w
    ELSE LET customer == CHOOSE c \in {w.customers[i] : i \in 1..Len(w.customers)} :
                             c.id = Head(customers_to_remove)
         IN  _handle_customer_death(
                 [w EXCEPT !.cash_items = Append(@, <<w.game.next_cash, customer.position>>),
                           !.game.next_cash = @ + 1,
                           !.customers = SelectSeq(@, LAMBDA c : c.id # customer.id),
                           !.game.h_gone = @ \cup {customer.id}],
                 Tail(customers_to_remove))

\* _handle_player_attack(), from the customer at index i on.  Only a
\* ThiefCustomer has apply_knockback and take_damage.
RECURSIVE _handle_player_attack(_, _, _, _)
_handle_player_attack(w, tm, i, customers_to_remove) ==
    IF i > Len(w.customers) THEN {_handle_customer_death(w, customers_to_remove)}
    ELSE LET customer == w.customers[i]
         IN  IF ~colliderect(PlayerRect(w.game.player), CustomerRect(customer.position))
             THEN _handle_player_attack(w, tm, i + 1, customers_to_remove)
             ELSE IF customer.kind # "thief" THEN {Raise(w, "customer.apply_knockback")}
             ELSE UNION {
                 LET hit == StrikeCustomer(customer, tm, knockback_direction)
                 IN  _handle_player_attack(
                         [w EXCEPT !.customers[i] = hit[1]], tm, i + 1,
                         IF hit[2] THEN Append(customers_to_remove, customer.id)
                         ELSE customers_to_remove) :
                 knockback_direction \in KnockbackDirections(w.game.player,
                                                             customer.position)}


(***************************************************************************)
(* SpecStore: GameState.update and the player's attack on a store that     *)
(* holds one or two customers, during the day ("playing", at its start or  *)
(* one update before its end) or after it ("waiting_for_customers").       *)
(***************************************************************************)
\* where the player stands: on the coin, or just inside the door
PlayerSpots ==
    {UnitCash[2],
     <<StoreTargets(SmallStore).door_pos[1] - TILE_SIZE \div 2,
       StoreTargets(SmallStore).door_pos[2]>>}

\* one customer of any kind; or a thief followed by a thief built by the same
\* draws, or by a litterer or a regular customer of the same stream; or a
\* regular customer followed by a thief of the same stream
StoreLists ==
    {<<a>> : a \in Built(1)}
    \cup UNION {{<<a, b>> : b \in {[a EXCEPT !.id = 2, !.rng = r] : r \in Streams}
                                 \cup {b \in Built(2) : b.kind # "thief" /\ b.rng = a.rng}} :
                a \in {a \in Built(1) : a.kind = "thief"}}
    \cup UNION {{<<b, a>> : b \in {b \in Built(1) : b.kind = "regular" /\ b.rng = a.rng}} :
                a \in {a \in Built(2) : a.kind = "thief"}}

World == [customers |-> customers, cash_items |-> cash_items,
          litter_items |-> litter_items, game |-> game]

InitStore ==
    /\ tile_map = SmallStore
    /\ pf = NoCall
    /\ customers \in StoreLists
    /\ cash_items \in {<<>>, <<UnitCash>>}
    /\ litter_items = <<>>
    /\ \E dt \in DtChoices, player \in PlayerSpots :
       \E day \in {<<"playing", 0>>, <<"playing", DAY_DURATION - dt>>,
                   <<"waiting_for_customers", DAY_DURATION>>} :
          game = [game_state |-> day[1], day_timer |-> day[2], collection_timer |-> 0,
                  collected_coins |-> 0, player |-> player, dt |-> dt, fault |-> "none",
                  next_cash |-> 2, h_taken |-> <<>>, h_gone |-> {}]

\* game_state.update(dt)
Update ==
    /\ game.fault = "none"
    /\ game.game_state \in {"playing", "waiting_for_customers", "collection_time"}
    /\ \E w \in GameState_update(World, tile_map) :
          /\ customers' = w.customers
          /\ cash_items' = w.cash_items
          /\ litter_items' = w.litter_items
          /\ game' = w.game
    /\ UNCHANGED <<tile_map, pf>>

\* game_state.handle_event(event) for the SPACE key
PlayerAttack ==
    /\ game.fault = "none"
    /\ game.game_state = "playing"
    /\ \E w \in _handle_player_attack(World, tile_map, 1, <<>>) :
          /\ customers' = w.customers
          /\ cash_items' = w.cash_items
          /\ litter_items' = w.litter_items
          /\ game' = w.game
    /\ UNCHANGED <<tile_map, pf>>

NextStore == Update \/ PlayerAttack

SpecStore == InitStore /\ [][NextStore]_vars


(***************************************************************************)
(* SpecPath: find_path called once on a synthetic grid.  The grid, the     *)
(* start point and the goal point are the inputs.                          *)
(***************************************************************************)
GridCells == (0..(GridCols - 1)) \X (0..(GridRows - 1))

\* the grid whose wall tiles are walls and whose other tiles are floor
GridOf(walls) ==
    [r \in 1..GridRows |->
        [c \in 1..GridCols |-> IF <<c - 1, r - 1>> \in walls THEN TILE_WALL ELSE TILE_FLOOR]]

\* a start is the top-left corner of a tile of the grid; a goal is the centre
\* of a tile of the grid or of the column east of it (an exit point lies
\* beyond the east wall)
StartPoints == {<<c[1] * TILE_SIZE, c[2] * TILE_SIZE>> : c \in GridCells}
GoalPoints == {tile_to_world(c[1], c[2]) : c \in (0..GridCols) \X (0..(GridRows - 1))}

\* goals beyond the reach of most or all of the rings around them
FarGoalPoints ==
    {tile_to_world(c[1], c[2]) : c \in ((GridCols + 3)..(GridCols + 4)) \X (0..(GridRows - 1))}

\* no GameState is built
NoGame == [game_state |-> "none"]

InitPath ==
    /\ \E walls \in SUBSET GridCells :
          /\ Cardinality(walls) <= MaxWalls
          /\ tile_map = GridOf(walls)
    /\ \E start \in StartPoints, goal \in GoalPoints :
          pf = [start |-> start, goal |-> goal, max_path_length |-> DEFAULT_MAX_PATH_LENGTH,
                called |-> FALSE, result |-> None]
    /\ customers = <<>>
    /\ cash_items = <<>>
    /\ litter_items = <<>>
    /\ game = NoGame

\* path = find_path(tile_map, start, goal)
CallFindPath ==
    /\ ~pf.called
    /\ pf' = [pf EXCEPT !.called = TRUE, !.result = find_path(tile_map, pf.start, pf.goal)]
    /\ UNCHANGED <<tile_map, customers, cash_items, litter_items, game>>

\* path = find_path(tile_map, start, goal, max_path_length=SmallCap)
CallFindPathCapped ==
    /\ ~pf.called
    /\ pf' = [pf EXCEPT !.called = TRUE, !.max_path_length = SmallCap,
                        !.result = find_path_capped(tile_map, pf.start, pf.goal, SmallCap)]
    /\ UNCHANGED <<tile_map, customers, cash_items, litter_items, game>>

\* path = find_path(tile_map, start, goal) for a goal east of the map, four
\* or five columns from its last column
CallFindPathFar ==
    /\ ~pf.called
    /\ \E goal \in FarGoalPoints :
          pf' = [pf EXCEPT !.called = TRUE, !.goal = goal,
                           !.result = find_path(tile_map, pf.start, goal)]
    /\ UNCHANGED <<tile_map, customers, cash_items, litter_items, game>>

NextPath == CallFindPath \/ CallFindPathCapped \/ CallFindPathFar

SpecPath == InitPath /\ [][NextPath]_vars


(***************************************************************************)
(* The reference the pathfinder is compared with: breadth-first search     *)
(* over the 4-directional walkable tiles of the grid.                      *)
(***************************************************************************)
WalkableCell(tm, cell) == InBounds(tm, cell) /\ tile_at(tm, cell[1], cell[2]) \notin CUSTOMER_SOLID_TILES

Manhattan(a, b) == Abs(a[1] - b[1]) + Abs(a[2] - b[2])

Step4(tm, cells) ==
    {n \in UNION {{<<c[1] + 1, c[2]>>, <<c[1] - 1, c[2]>>, <<c[1], c[2] + 1>>, <<c[1], c[2] - 1>>} :
                    c \in cells} : WalkableCell(tm, n)}

\* the number of tiles on a shortest 4-directional route, 0 when there is none
RECURSIVE BfsCells(_, _, _, _, _)
BfsCells(tm, frontier, seen, goal, count) ==
    IF goal \in frontier THEN count
    ELSE IF frontier = {} THEN 0
    ELSE LET next == Step4(tm, frontier) \ seen
         IN  BfsCells(tm, next, seen \cup next, goal, count + 1)

ShortestCells(tm, s, g) == BfsCells(tm, {s}, {s}, g, 1)

PfStart == world_to_tile(pf.start)
PfGoal == world_to_tile(pf.goal)
PfBothWalkable == WalkableCell(tile_map, PfStart) /\ WalkableCell(tile_map, PfGoal)

\* the tile a waypoint is the centre of, or None
CellOfCentre(p) ==
    IF p = tile_to_world(p[1] \div TILE_SIZE, p[2] \div TILE_SIZE)
    THEN <<p[1] \div TILE_SIZE, p[2] \div TILE_SIZE>> ELSE None

Chebyshev(a, b) ==
    IF Abs(a[1] - b[1]) > Abs(a[2] - b[2]) THEN Abs(a[1] - b[1]) ELSE Abs(a[2] - b[2])

\* the end of a path stands for the asked tile: that tile when it is walkable,
\* else a walkable tile at most 4 rings away
StandsFor(tm, cell, asked) ==
    /\ WalkableCell(tm, cell)
    /\ IF WalkableCell(tm, asked) THEN cell = asked ELSE Chebyshev(cell, asked) \in 1..4

\* C1 as stated: for walkable start and goal tiles joined by a 4-directional
\* walkable route, find_path returns as many waypoints as a shortest route
\* found by breadth-first search has tiles (start and goal included).
C1_AnyLength ==
    LET shortest == ShortestCells(tile_map, PfStart, PfGoal)
    IN  (pf.called /\ PfBothWalkable /\ shortest > 0)
            => /\ pf.result # None
               /\ Len(pf.result) = shortest

\* C1 as amended: the same, for routes of at most max_path_length tiles; a
\* longer shortest route makes find_path return None.
C1_ShortestLength ==
    LET shortest == ShortestCells(tile_map, PfStart, PfGoal)
    IN  (pf.called /\ PfBothWalkable /\ shortest > 0)
            => IF shortest <= pf.max_path_length
               THEN /\ pf.result # None
                    /\ Len(pf.result) = shortest
               ELSE pf.result = None

\* a route that has to go around a wall was found
C1_Witness ==
    /\ pf.called /\ PfBothWalkable /\ pf.result # None
    /\ Len(pf.result) > Manhattan(PfStart, PfGoal) + 1
    /\ Len(pf.result) = ShortestCells(tile_map, PfStart, PfGoal)

\* C2: for walkable start and goal tiles that no 4-directional walkable
\* route joins, find_path ends and returns None.
C2_DisconnectedNone ==
    (pf.called /\ PfBothWalkable /\ ShortestCells(tile_map, PfStart, PfGoal) = 0)
        => pf.result = None

\* the call returned None for two walkable tiles that walls separate
C2_Witness ==
    /\ pf.called /\ PfBothWalkable
    /\ ShortestCells(tile_map, PfStart, PfGoal) = 0
    /\ pf.result = None

\* C3: every returned list holds centres of in-bounds walkable tiles, starts
\* at the (possibly substituted) start tile, ends at the (possibly
\* substituted) goal tile, and its consecutive waypoints are one tile apart
\* in Manhattan distance.
C3_PathValid ==
    (pf.called /\ pf.result # None) =>
        LET path == pf.result
            cells == [i \in 1..Len(path) |-> CellOfCentre(path[i])]
        IN  /\ Len(path) >= 1
            /\ \A i \in 1..Len(path) : cells[i] # None /\ WalkableCell(tile_map, cells[i])
            /\ StandsFor(tile_map, cells[1], PfStart)
            /\ StandsFor(tile_map, cells[Len(path)], PfGoal)
            /\ \A i \in 1..(Len(path) - 1) : Manhattan(cells[i], cells[i + 1]) = 1

\* a path of several waypoints from a substituted start tile
C3_Witness ==
    /\ pf.called /\ pf.result # None
    /\ Len(pf.result) >= 3
    /\ ~WalkableCell(tile_map, PfStart)
    /\ CellOfCentre(pf.result[1]) # PfStart


(***************************************************************************)
(* Claims on the customer classes (SpecUnit) and on the driver (SpecStore) *)
(***************************************************************************)
\* C4, as stated, for the finite runs: a customer that is to reach finished =
\* True in the end is never at rest before, that is, unfinished and left as it
\* is by its update.
C4_NoNpcAtRest ==
    LET customer == customers[1]
        rects == get_customer_solid_tiles_around(CustomerRect(customer.position), tile_map)
        outcomes ==
            IF customer.kind = "thief"
            THEN {out[1] : out \in ThiefCustomer_update(customer, tile_map, game.dt, rects,
                                                        cash_items)}
            ELSE IF customer.kind = "litter"
            THEN LitterCustomer_update(customer, tile_map, game.dt, rects)
            ELSE Customer_update(customer, game.dt, rects)
    IN  customer.finished \/ outcomes # {customer}

\* C5, as stated, for the finite runs: the driver carries every regular
\* customer to the update in which its browsing time expires and it turns to
\* leaving, so the program does not stop before.
C5_DriverReachesTheDrop ==
    game.fault # "none" =>
        \A i \in 1..Len(customers) :
            customers[i].kind = "regular" => customers[i].state = "leaving"

\* C6, as stated: a thief whose browsing time expired in an update that was
\* handed an empty currency list goes from searching to leaving in its next
\* update, never enters stealing and never sets stole_cash.
C6_EmptyAtExpiry ==
    /\ [][(game.h_expired_empty /\ customers[1].state = "searching"
           /\ customers' # customers) => customers'[1].state = "leaving"]_vars
    /\ [](game.h_expired_empty =>
             customers[1].state # "stealing" /\ ~customers[1].stole_cash)

\* C6, amended: a thief whose update in state searching is handed an empty
\* currency list goes to leaving in that update, and from then on is never
\* in stealing and never sets stole_cash.
C6_EmptyAtSearch ==
    /\ [][(customers[1].kind = "thief" /\ customers[1].state = "searching"
           /\ cash_items = <<>> /\ customers' # customers)
          => customers'[1].state = "leaving"]_vars
    /\ [](game.h_searched_empty =>
             customers[1].state = "leaving" /\ ~customers[1].stole_cash)

\* a thief has left its search with nothing to take
C6_Witness ==
    /\ game.game_state = "unit"
    /\ game.h_searched_empty
    /\ customers[1].state = "leaving"

\* C7: when a _follow_path call finds the customer within 0.1 tile of its last
\* recorded position with more than 0.2 s accumulated, that call computes the
\* path again from where the customer stands to the target it was given and
\* resets the stuck timer; so the stuck timer is never above 0.2 s after an
\* update.
C7_StuckTimerBounded ==
    customers[1].kind \in {"thief", "litter"} =>
        /\ customers[1]._stuck_timer <= 200
        /\ (customers[1].h_follow # None /\ customers[1].h_follow.stuck_timer > 200) =>
               \E k \in 1..Len(customers[1].h_paths) :
                   customers[1].h_paths[k] = <<customers[1].h_follow.position,
                                               customers[1].h_follow.target>>

\* a _follow_path call has found the customer where it was last recorded with
\* more than 0.2 s on the timer, and has computed the path again
C7_Witness ==
    /\ game.game_state = "unit"
    /\ customers[1].kind \in {"thief", "litter"}
    /\ customers[1].h_follow # None
    /\ customers[1].h_follow.stuck_timer > 200
    /\ customers[1]._stuck_timer = 0

\* C8: in a program that has not stopped, no customer of the list is finished
\* and none has been removed from it before; and a finished flag that is
\* True stays True.
C8_FinishedStaysAndIsRemoved ==
    /\ [](game.fault = "none" =>
             \A i \in 1..Len(customers) :
                 ~customers[i].finished /\ customers[i].id \notin game.h_gone)
    /\ [][\A i \in 1..Len(customers) : \A j \in 1..Len(customers') :
              (customers[i].finished /\ customers'[j].id = customers[i].id)
                  => customers'[j].finished]_vars

\* a customer that finished has been removed, no customer has been killed, and
\* another customer is still in the store
C8_Witness ==
    /\ game.game_state = "waiting_for_customers" /\ game.fault = "none"
    /\ game.h_gone # {}
    /\ game.next_cash = 2
    /\ Len(customers) > 0

\* C9: no coin is taken twice, every coin taken was in the list when it was
\* taken, and no coin taken is in the list.
C9_TakenAtMostOnce ==
    /\ \A i, j \in 1..Len(game.h_taken) :
           i # j => game.h_taken[i][1] # game.h_taken[j][1]
    /\ \A i \in 1..Len(game.h_taken) :
           /\ game.h_taken[i][3]
           /\ \A k \in 1..Len(cash_items) : cash_items[k][1] # game.h_taken[i][1]

\* a thief has taken the coin that another thief is still walking to
C9_Witness ==
    /\ game.game_state = "waiting_for_customers"
    /\ \E k \in 1..Len(game.h_taken) : \E i \in 1..Len(customers) :
          /\ game.h_taken[k][2] > 0
          /\ customers[i].kind = "thief"
          /\ customers[i].id # game.h_taken[k][2]
          /\ customers[i].state = "stealing"
          /\ customers[i].target_cash # None
          /\ customers[i].target_cash[1] = game.h_taken[k][1]

\* C10: an update of a customer leaves the currency list and the litter list
\* as they were.
C10_UpdatesKeepCollections ==
    [][customers' # customers => cash_items' = cash_items /\ litter_items' = litter_items]_vars

\* a thief has reached its coin and set stole_cash, and the coin is in the list
C10_Witness ==
    /\ game.game_state = "unit"
    /\ customers[1].kind = "thief"
    /\ customers[1].stole_cash
    /\ \E k \in 1..Len(cash_items) : cash_items[k] = customers[1].target_cash

(***************************************************************************)
(* Claims on the tile map, the fallback of _follow_path and the movers     *)
(***************************************************************************)
\* C11: the updates of the customers, with the path computations, the
\* steering, the floor-tile checks and the obstacle queries they make, leave
\* the contents of the tile map as they were.
C11_TileMapUnchanged ==
    /\ [](game.game_state = "unit" => tile_map = SmallStore)
    /\ [][tile_map' = tile_map]_vars

\* a litterer that has passed the floor-tile check and dropped litter walks
\* on a path find_path returned
C11_Witness ==
    /\ game.game_state = "unit"
    /\ customers[1].kind = "litter"
    /\ customers[1].litter_count_dropped > 0
    /\ customers[1].path # None
    /\ tile_map = SmallStore

\* the state a customer is in after the update in which it arrived, for the
\* states that walk with _follow_path
ArrivalStates(state) ==
    IF state = "to_node" THEN {"looking_at_node"}
    ELSE IF state = "to_shelf" THEN {"browsing"}
    ELSE IF state = "stealing" THEN {"leaving"}
    ELSE {state}

\* C12: a _follow_path call that has no path to follow because find_path
\* returned None leaves the customer where _move_towards, called from the
\* customer's position with the target, the dt and the threshold of the call,
\* puts it; the customer's state is the one it had, or, when that movement
\* reached the target, the state of an arrival.
C12_NoPathSteersDirect ==
    LET c == customers[1]
    IN  (c.kind \in {"thief", "litter"} /\ c.h_steer # None /\ c.h_steer.path = None) =>
            LET direct == _move_towards(
                              [c EXCEPT !.position = c.h_steer.position],
                              c.h_steer.target, c.h_steer.dt,
                              get_customer_solid_tiles_around(
                                  CustomerRect(c.h_steer.position), tile_map),
                              c.h_steer.threshold)
            IN  /\ c.position = direct[1].position
                /\ c.state \in IF direct[2] THEN ArrivalStates(c.h_steer.state)
                                ELSE {c.h_steer.state}

\* find_path returned None in this update, and the customer has moved
C12_Witness ==
    /\ game.game_state = "unit"
    /\ customers[1].kind \in {"thief", "litter"}
    /\ customers[1].h_steer # None
    /\ customers[1].h_steer.path = None
    /\ customers[1].h_paths # <<>>
    /\ customers[1].path = None
    /\ customers[1].position # customers[1].h_steer.position

C14_DestinationFromUnion ==
    LET c == customers[1]
        t == StoreTargets(tile_map)
        union == {t.shelf_centers[i] : i \in 1..Len(t.shelf_centers)}
                 \cup {t.node_centers[i] : i \in 1..Len(t.node_centers)}
        destination == IF c.target_type = "node" THEN c.node_pos ELSE c.shelf_pos
    IN  c.kind \in {"thief", "litter"} =>
            /\ union # {} => destination \in union
            /\ destination = c.door_pos => union = {}

\* C15: the update of a thief in state stealing whose targeted coin is not in
\* the currency list it is handed clears target_cash and target_cash_pos,
\* puts the thief in state leaving and leaves stole_cash False.
C15_GoneCoinAbandoned ==
    [][(/\ customers[1].kind = "thief"
        /\ customers[1].state = "stealing"
        /\ customers[1].target_cash # None
        /\ ~\E k \in 1..Len(cash_items) : cash_items[k] = customers[1].target_cash
        /\ customers' # customers)
       => /\ customers'[1].target_cash = None
          /\ customers'[1].target_cash_pos = None
          /\ customers'[1].state = "leaving"
          /\ ~customers'[1].stole_cash]_vars

\* a thief that was never handed an empty list while searching has just
\* turned to leaving without a target and without having stolen: its coin
\* was taken away while it walked to it
C15_Witness ==
    /\ game.game_state = "unit"
    /\ customers[1].kind = "thief"
    /\ customers[1].target_type = "shelf"
    /\ ~game.h_searched_empty
    /\ customers[1].state = "leaving"
    /\ customers[1].target_cash = None
    /\ customers[1].target_cash_pos = None
    /\ ~customers[1].stole_cash
    /\ customers[1].h_paths = <<<<customers[1].position, customers[1].leave_pos>>>>
    /\ customers[1].h_follow = None

\* the rects of all the tiles of the map that are obstacles for a customer
AllSolidRects(tm) ==
    {Rect(c[1] * TILE_SIZE, c[2] * TILE_SIZE, TILE_SIZE, TILE_SIZE) :
        c \in {c \in (0..(MapCols(tm) - 1)) \X (0..(MapRows(tm) - 1)) :
                  tile_at(tm, c[1], c[2]) # TILE_DOOR
                  /\ tile_at(tm, c[1], c[2]) \in CUSTOMER_SOLID_TILES}}

\* how deep rect a reaches into rect b: the smaller side of their
\* intersection, 0 when they do not collide
OverlapDepth(a, b) ==
    IF colliderect(a, b)
    THEN Min(Min(a.right, b.right) - Max(a.left, b.left),
             Min(a.bottom, b.bottom) - Max(a.top, b.top))
    ELSE 0

\* C16: the rect of a thief or a litterer (radius CUSTOMER_RADIUS) never
\* reaches more than 0.3 tile into an obstacle tile, and the rect of a
\* regular customer, which overlaps no obstacle when it is built, overlaps
\* none after any update.
C16_OverlapWithinTolerance ==
    \A tile_rect \in AllSolidRects(tile_map) :
        LET depth == OverlapDepth(CustomerRect(customers[1].position), tile_rect)
        IN  IF customers[1].kind = "regular" THEN depth = 0
            ELSE depth <= (TILE_SIZE * 3) \div 10

\* a thief or a litterer that has walked stands with its rect inside an
\* obstacle tile, by no more than the tolerance
C16_Witness ==
    /\ game.game_state = "unit"
    /\ customers[1].kind \in {"thief", "litter"}
    /\ customers[1].position # customers[1].door_pos
    /\ customers[1].h_follow # None
    /\ \E tile_rect \in AllSolidRects(tile_map) :
          LET depth == OverlapDepth(CustomerRect(customers[1].position), tile_rect)
          IN  depth > 0 /\ depth <= (TILE_SIZE * 3) \div 10

\* C17, as stated: without obstacles and with a fixed target, a call of
\* _move_towards that does not return True leaves the customer strictly
\* closer to the target than it was, and the calls that have not reached the
\* target number at most the initial distance divided by the step, whatever
\* the dt.
C17_ConvergesForEveryDt ==
    /\ [][(game.game_state = "move" /\ game'.calls > game.calls /\ ~game'.h_reached)
          => LengthSq(VSub(game.target, customers'[1].position))
                < LengthSq(VSub(game.target, customers[1].position))]_vars
    /\ []((game.game_state = "move" /\ ~game.h_reached)
             => game.calls * StepOf(game.dt)
                   <= Length(VSub(game.target, game.h_start)) * 100)

\* C18: a call of _move_towards made while the customer is closer to the
\* target than proximity_threshold returns True and leaves the position as it
\* was.
C18_WithinThresholdStays ==
    [][(/\ game.game_state = "move"
        /\ game'.calls > game.calls
        /\ Within(game.target, customers[1].position, game.threshold))
       => /\ customers'[1].position = customers[1].position
          /\ game'.h_reached]_vars

\* the first call found the customer inside the threshold, off the target,
\* and returned True without moving it
C18_Witness ==
    /\ game.game_state = "move"
    /\ game.calls = 1
    /\ game.h_reached
    /\ customers[1].position = game.h_before
    /\ customers[1].position # game.target
    /\ Within(game.target, customers[1].position, game.threshold)

(***************************************************************************)
(* Claims on find_path's replacement of a blocked start or goal tile and   *)
(* on its cap (SpecPath)                                                   *)
(***************************************************************************)
\* the walkable tiles on the square ring of the given radius around a tile
RingCells(tm, cell, radius) ==
    {c \in ((cell[1] - radius)..(cell[1] + radius))
             \X ((cell[2] - radius)..(cell[2] + radius)) :
        Chebyshev(c, cell) = radius /\ WalkableCell(tm, c)}

\* the radius in 1..4 of the smallest ring with a walkable tile, 0 without one
NearestRing(tm, cell) ==
    LET radii == {r \in 1..4 : RingCells(tm, cell, r) # {}}
    IN  IF radii = {} THEN 0 ELSE CHOOSE r \in radii : \A q \in radii : r <= q

\* C19: for a start or goal tile that is not walkable, find_path returns None
\* when no ring of radius 1 to 4 around it holds a walkable tile, and every
\* path it returns starts (ends) on a walkable tile of the smallest ring
\* around the start (goal) tile that holds one.
C19_NearestRingSubstitute ==
    pf.called =>
        /\ \A asked \in {PfStart, PfGoal} :
               (~WalkableCell(tile_map, asked) /\ NearestRing(tile_map, asked) = 0)
                   => pf.result = None
        /\ pf.result # None =>
               /\ ~WalkableCell(tile_map, PfStart) =>
                      CellOfCentre(pf.result[1])
                          \in RingCells(tile_map, PfStart, NearestRing(tile_map, PfStart))
               /\ ~WalkableCell(tile_map, PfGoal) =>
                      CellOfCentre(pf.result[Len(pf.result)])
                          \in RingCells(tile_map, PfGoal, NearestRing(tile_map, PfGoal))

\* a path ends on a tile two or more rings from a goal tile that is not
\* walkable and has no walkable tile next to it
C19_Witness ==
    /\ pf.called /\ pf.result # None
    /\ ~WalkableCell(tile_map, PfGoal)
    /\ NearestRing(tile_map, PfGoal) >= 2
    /\ Len(pf.result) >= 2

\* C20: find_path returns no list of more than max_path_length waypoints:
\* for start and goal tiles (as replaced when not walkable) that differ and
\* that a route joins, it returns None when the route it rebuilds has more
\* than max_path_length nodes, and otherwise the whole route, from the start
\* tile to the goal tile.
C20_CapHonoured ==
    pf.called =>
        /\ pf.result # None => Len(pf.result) <= pf.max_path_length
        /\ \A s \in {ResolveTile(tile_map, PfStart)}, g \in {ResolveTile(tile_map, PfGoal)} :
               (s # None /\ g # None /\ s # g) =>
                   \A nodes \in {ShortestCells(tile_map, s, g)} :
                       nodes > 0 =>
                           IF nodes > pf.max_path_length
                           THEN pf.result = None
                           ELSE /\ pf.result # None
                                /\ Len(pf.result) = nodes
                                /\ CellOfCentre(pf.result[1]) = s
                                /\ CellOfCentre(pf.result[nodes]) = g

\* a call with a small cap returned None for two walkable tiles whose
\* shortest route has one node more than the cap
C20_Witness ==
    /\ pf.called /\ PfBothWalkable
    /\ pf.max_path_length = SmallCap
    /\ ShortestCells(tile_map, PfStart, PfGoal) = SmallCap + 1
    /\ pf.result = None

(***************************************************************************)
(* Claims on the driver's calls, on the paths and on the states of the     *)
(* customers                                                               *)
(***************************************************************************)
\* C21, as stated: every call the driver makes on a customer (the spawner's
\* update that builds it, its update in the pass over the customers, and
\* apply_knockback and take_damage under the player's attack) completes: no
\* call raises.
C21_NoDriverFault == game.fault = "none"

\* the targets a customer in its present state navigates to by path
NavTargets(c) ==
    IF c.state = "to_shelf" THEN {c.shelf_target}
    ELSE IF c.state = "browsing" THEN {c.browsing_target}
    ELSE IF c.state = "to_node" THEN {c.node_pos}
    ELSE IF c.state = "stealing" THEN {c.target_cash_pos}
    ELSE IF c.state = "leaving" THEN {c.leave_pos, c.door_pos}
    ELSE {}

\* the path a customer holds ends on the tile find_path searches to for one
\* of the targets of its present state
PathLeadsToTarget(c, tm) ==
    c.path # None =>
        \E t \in NavTargets(c) \ {None} :
            \E g \in {ResolveTile(tm, world_to_tile(t))} :
                g # None /\ c.path[Len(c.path)] = tile_to_world(g[1], g[2])

\* the customers of the two classes that walk by path
PathWalkers(list) == {list[i] : i \in {i \in 1..Len(list) : list[i].kind # "regular"}}

MachineEdges(kind) ==
    {<<"entering", "to_shelf">>, <<"entering", "to_node">>, <<"to_shelf", "browsing">>,
     <<"to_node", "looking_at_node">>, <<"looking_at_node", "buying">>,
     <<"buying", "leaving">>}
    \cup (IF kind = "thief"
          THEN {<<"browsing", "searching">>, <<"searching", "stealing">>,
                <<"searching", "leaving">>, <<"stealing", "leaving">>}
          ELSE {<<"browsing", "leaving">>})

\* C23: every change of a customer's state in an update follows an edge of
\* the shared machine (a thief goes from browsing to searching, the others
\* from browsing to leaving); the player's strike, which alone lowers the
\* health, takes a customer from any state to leaving; and only thieves are
\* ever in searching or stealing.
C23_StateFollowsMachine ==
    /\ [](\A i \in 1..Len(customers) :
             customers[i].state \in {"searching", "stealing"} => customers[i].kind = "thief")
    /\ [][\A i \in 1..Len(customers) :
             (Len(customers') = Len(customers) /\ customers'[i].state # customers[i].state)
                 => IF customers[i].kind = "thief"
                       /\ customers'[i].health < customers[i].health
                    THEN customers'[i].state = "leaving"
                    ELSE <<customers[i].state, customers'[i].state>>
                             \in MachineEdges(customers[i].kind)]_vars

\* a thief that was never struck has gone by browsing and searching to
\* stealing, and a path to its coin was asked for
C23_Witness ==
    /\ customers[1].kind = "thief" /\ customers[1].state = "stealing"
    /\ customers[1].health = customers[1].max_health
    /\ customers[1].target_cash # None /\ customers[1].path # None

\* C24: a thief built with a node as its destination is never in searching
\* or stealing and never has stole_cash set; stole_cash is set only by an
\* update of a thief in state stealing that ends within reach of the coin's
\* position, stealing is entered only from searching, and searching only
\* from browsing.
C24_NodeThiefNeverSteals ==
    /\ [](\A i \in 1..Len(customers) :
             (customers[i].kind = "thief" /\ customers[i].target_type = "node")
                 => /\ customers[i].state \notin {"searching", "stealing"}
                    /\ ~customers[i].stole_cash)
    /\ [][\A i \in 1..Len(customers) :
             (Len(customers') = Len(customers) /\ customers[i].kind = "thief")
                 => /\ (customers'[i].stole_cash /\ ~customers[i].stole_cash)
                           => /\ customers[i].state = "stealing"
                              /\ customers[i].target_cash_pos # None
                              /\ Within(customers'[i].position, customers[i].target_cash_pos,
                                        (TILE_SIZE * 4) \div 10)
                    /\ (customers'[i].state = "stealing" /\ customers[i].state # "stealing")
                           => customers[i].state = "searching"
                    /\ (customers'[i].state = "searching" /\ customers[i].state # "searching")
                           => customers[i].state = "browsing"]_vars

\* a thief sent to the node has bought there and leaves, with a coin lying
\* in the store that it did not go for
C24_Witness ==
    /\ customers[1].kind = "thief" /\ customers[1].target_type = "node"
    /\ customers[1].state = "leaving" /\ customers[1].health = customers[1].max_health
    /\ customers[1].buying_time > 0 /\ customers[1].buying_elapsed >= customers[1].buying_time
    /\ cash_items # <<>> /\ ~customers[1].stole_cash

\* a customer without the history the model keeps about its last update
WithoutHistory(c) ==
    IF c.kind = "regular" THEN c
    ELSE [c EXCEPT !.h_paths = <<>>, !.h_follow = None, !.h_steer = None, !.h_dry = 0]

\* C25: the health of a thief is always one of 0..3, and the update of a
\* thief whose health is 0 sets finished and leaves every other attribute
\* as it is: the position (though a knockback is under way), the state and
\* stole_cash among them.
C25_DeadThiefOnlyFinishes ==
    /\ [](\A i \in 1..Len(customers) :
             customers[i].kind = "thief"
                 => customers[i].max_health = 3 /\ customers[i].health \in 0..3)
    /\ [][\A i \in 1..Len(customers) :
             (Len(customers') = Len(customers) /\ customers[i].kind = "thief"
              /\ customers[i].health = 0 /\ customers'[i] # customers[i])
                 => WithoutHistory(customers'[i])
                        = [WithoutHistory(customers[i]) EXCEPT !.finished = TRUE]]_vars

\* a thief struck three times in a row was updated: it is finished where it
\* stood, short of the exit point, with the knockback of the last strike
\* still to come
C25_Witness ==
    /\ customers[1].kind = "thief" /\ customers[1].health = 0 /\ customers[1].finished
    /\ customers[1].knockback_timer = 300 /\ customers[1].knockback_velocity # <<0, 0>>
    /\ ~Within(customers[1].position, customers[1].leave_pos, TILE_SIZE \div 2)

\* C26, as stated: a customer of any class that is not a dead thief becomes
\* finished only by an update that finds it in state leaving and within 1.5
\* tiles of the door and whose direct move ends within reach of the exit
\* point; an update that finds it in state leaving farther from the door
\* does not finish it.
C26_FinishedOnlyByTheDoor ==
    [][\A i \in 1..Len(customers) :
          (Len(customers') = Len(customers) /\ ~customers[i].finished
           /\ (customers[i].kind = "thief" => customers[i].health > 0))
             => /\ customers'[i].finished
                    => /\ customers[i].state = "leaving"
                       /\ Within(customers[i].position, customers[i].door_pos,
                                 (TILE_SIZE * 3) \div 2)
                       /\ Within(customers'[i].position, customers[i].leave_pos,
                                 TILE_SIZE \div 2)
                /\ (customers[i].state = "leaving"
                    /\ ~Within(customers[i].position, customers[i].door_pos,
                               (TILE_SIZE * 3) \div 2))
                       => ~customers'[i].finished]_vars

DropsLitter(i) ==
    /\ Len(customers') = Len(customers)
    /\ customers[i].kind = "litter"
    /\ customers'[i].litter_count_dropped > customers[i].litter_count_dropped

\* C28: every litter drop of a litterer is at the position the litterer
\* stands on, which is on a floor tile and at least 0.8 tile from the
\* position of its previous drop, and is made by an update that finds the
\* drop timer, with the time of the update added, at or past the drop delay;
\* the drop restarts the timer and is one drop.
C28_DropOnFloorApartAfterDelay ==
    [][\A i \in 1..Len(customers) :
          DropsLitter(i)
            => /\ customers'[i].drop_litter
               /\ customers'[i].litter_pos = customers[i].position
               /\ customers'[i]._last_litter_drop_pos = customers[i].position
               /\ tile_at(tile_map, customers[i].position[1] \div TILE_SIZE,
                          customers[i].position[2] \div TILE_SIZE) = TILE_FLOOR
               /\ customers[i]._last_litter_drop_pos # None
                    => LengthSq(VSub(customers[i].position,
                                     customers[i]._last_litter_drop_pos))
                         * 100 >= TILE_SIZE * TILE_SIZE * 64
               /\ customers[i].litter_drop_timer + game.dt >= customers[i].litter_drop_delay
               /\ customers'[i].litter_drop_timer = 0
               /\ customers'[i].litter_count_dropped
                    = customers[i].litter_count_dropped + 1]_vars

\* a litterer that has dropped litter twice, the second drop away from the
\* first one
C28_Witness ==
    /\ customers[1].kind = "litter"
    /\ customers[1].litter_count_dropped >= 2
    /\ customers[1]._last_litter_drop_pos # None
    /\ customers[1].litter_pos = customers[1]._last_litter_drop_pos

\* random.uniform(0.8, 2.0) of a drop draws from the generator every customer
\* and the spawner share: the choices the litterer makes after the drop are
\* those of any stream
UnitRedraw ==
    /\ customers[1].kind = "litter" /\ ~customers[1].finished
    /\ customers[1].state = "browsing"
    /\ customers[1].litter_count_dropped > 0 /\ customers[1].litter_drop_timer = 0
    /\ \E r \in Streams :
          /\ r # customers[1].rng
          /\ customers' = <<[customers[1] EXCEPT !.rng = r]>>
    /\ UNCHANGED <<tile_map, pf, cash_items, litter_items, game>>

NextLitter == NextUnit \/ UnitRedraw

SpecLitter == InitUnit /\ [][NextLitter]_vars

ToShelfTarget(c) == IF c.kind = "regular" THEN c.shelf_pos ELSE c.shelf_target

\* the standing positions computed for the shelf of c
StandingPositions(c, tm) ==
    LET positions == StoreTargets(tm).shelf_browsing_positions
    IN  IF c.shelf_pos \in DOMAIN positions
        THEN {positions[c.shelf_pos][k] : k \in 1..Len(positions[c.shelf_pos])}
        ELSE {}

\* C30, as stated: the point a customer in state to_shelf walks to is one of
\* the standing positions computed for its shelf and is not the centre of
\* the shelf; a customer starts browsing only from state to_shelf, within
\* 0.4 tile of that point, and with browsing_elapsed 0.
C30_ToShelfStandsBesideShelf ==
    /\ [](\A i \in 1..Len(customers) :
             (customers[i].state = "to_shelf" /\ ToShelfTarget(customers[i]) # None)
                => /\ ToShelfTarget(customers[i]) \in StandingPositions(customers[i], tile_map)
                   /\ ToShelfTarget(customers[i]) # customers[i].shelf_pos)
    /\ [][\A i \in 1..Len(customers) :
             (Len(customers') = Len(customers)
              /\ customers[i].state # "browsing" /\ customers'[i].state = "browsing")
                => /\ customers[i].state = "to_shelf"
                   /\ customers'[i].browsing_elapsed = 0
                   /\ ToShelfTarget(customers[i]) # None
                   /\ Within(customers[i].position, ToShelfTarget(customers[i]),
                             (TILE_SIZE * 4) \div 10)]_vars

(***************************************************************************)
(* Claims on the browsing targets, the pauses by a node and the movers     *)
(***************************************************************************)
\* k * x * y for naturals x and y below 2 * 10^6 and k up to 100, as three
\* digits to the base 1000, the highest first
WideTimes(x, y, k) ==
    LET low == k * ((x % 1000) * (y % 1000))
        mid == k * ((x \div 1000) * (y % 1000) + (x % 1000) * (y \div 1000))
                 + low \div 1000
        high == k * ((x \div 1000) * (y \div 1000)) + mid \div 1000
    IN  <<high, mid % 1000, low % 1000>>

\* the order of two such numbers
WideLess(m, n) ==
    \/ m[1] < n[1]
    \/ m[1] = n[1] /\ m[2] < n[2]
    \/ m[1] = n[1] /\ m[2] = n[2] /\ m[3] < n[3]

\* the normalized directions from the shelf to the two points have a dot
\* product above 0.3, in exact arithmetic
OnSameSide(shelf_pos, position, pos) ==
    LET a == VSub(position, shelf_pos)
        b == VSub(pos, shelf_pos)
        dot == a[1] * b[1] + a[2] * b[2]
    IN  dot > 0 /\ WideLess(WideTimes(LengthSq(a), LengthSq(b), 9), WideTimes(dot, dot, 100))

\* the standing positions of c's shelf that pass the same-side test for a
\* customer at position
SameSidePositions(c, position) ==
    {c.browsing_positions[k] : k \in {k \in 1..Len(c.browsing_positions) :
        OnSameSide(c.shelf_pos, position, c.browsing_positions[k])}}

\* an update in which customer i picks a browsing target: it starts browsing,
\* or it is browsing and walks to another target than before
PicksBrowsingTarget(i) ==
    /\ Len(customers') = Len(customers)
    /\ customers[i].kind # "regular"
    /\ customers'[i].state = "browsing"
    /\ customers'[i].browsing_target # None
    /\ customers[i].state = "to_shelf"
       \/ customers'[i].browsing_target # customers[i].browsing_target

\* C31: when the shelf has standing positions, a browsing target that is
\* picked is one of them; when at least one standing position passes the
\* same-side test for the position the customer picks at, the picked target
\* passes it.
C31_BrowsingTargetOnSameSide ==
    [][\A i \in 1..Len(customers) :
          (PicksBrowsingTarget(i) /\ Len(customers[i].browsing_positions) > 0)
            => /\ \E k \in 1..Len(customers[i].browsing_positions) :
                     customers'[i].browsing_target = customers[i].browsing_positions[k]
               /\ SameSidePositions(customers[i], customers'[i].position) # {}
                    => customers'[i].browsing_target
                         \in SameSidePositions(customers[i], customers'[i].position)]_vars

\* a customer browses at a target that passes the same-side test, beside a
\* shelf with standing positions that do not pass it
C31_Witness ==
    \E i \in 1..Len(customers) :
        /\ customers[i].kind # "regular"
        /\ customers[i].state = "browsing"
        /\ customers[i].browsing_target # None
        /\ customers[i].h_paths # <<>>
        /\ customers[i].h_paths[Len(customers[i].h_paths)]
             = <<customers[i].position, customers[i].browsing_target>>
        /\ customers[i].browsing_target
             \in SameSidePositions(customers[i], customers[i].position)
        /\ \E k \in 1..Len(customers[i].browsing_positions) :
              customers[i].browsing_positions[k]
                 \notin SameSidePositions(customers[i], customers[i].position)

\* customer i is on its way to a node, inside the band, and its last update
\* ended a pause: it looked around without calling _follow_path and is not
\* paused
PauseJustEnded(i) ==
    /\ customers[i].kind # "regular"
    /\ customers[i].state = "to_node"
    /\ customers[i].approaching_node
    /\ ~customers[i].is_paused
    /\ customers[i].h_follow = None

\* C32, as stated: inside the band by a node an update that finds the
\* customer paused ends the pause when the pause time has run out with it,
\* and the update after the one that ended a pause is a movement step, a call
\* of _follow_path, and not the start of the next pause.
C32_StepBetweenPauses ==
    [][\A i \in 1..Len(customers) :
          (Len(customers') = Len(customers) /\ customers'[i] # customers[i]
           /\ customers[i].kind # "regular" /\ customers[i].state = "to_node")
            => /\ (customers[i].is_paused /\ customers'[i].state = "to_node")
                    => customers'[i].is_paused = (customers[i].pause_timer > game.dt)
               /\ PauseJustEnded(i)
                    => /\ customers'[i].h_follow # None
                       /\ ~customers'[i].is_paused]_vars

(***************************************************************************)
(* _move_towards of a thief or litterer called beside the shelves of the   *)
(* small store, with the obstacles around it as GameState.update collects  *)
(* them                                                                    *)
(***************************************************************************)
\* starts on the floor tile between the two shelf groups, targets around it
CornerStarts == {<<x, y>> : x \in {510, 540, 570}, y \in {270, 300, 330}}
CornerTargets == {<<420, 420>>, <<540, 450>>, <<330, 300>>, <<660, 420>>, <<540, 180>>,
                  <<400, 330>>, <<500, 480>>}
CornerDts == {100, 200}

InitCorner ==
    /\ tile_map = SmallStore
    /\ pf = NoCall
    /\ \E c \in {b \in Built(1) : b.kind # "regular" /\ b.rng = 1 /\ b.target_type = "shelf"},
          start \in CornerStarts :
          customers = <<[c EXCEPT !.position = start]>>
    /\ cash_items = <<>>
    /\ litter_items = <<>>
    /\ \E dt \in CornerDts, target \in CornerTargets :
          game = [game_state |-> "corner", dt |-> dt, target |-> target,
                  threshold |-> (TILE_SIZE * 4) \div 10, calls |-> 0,
                  h_before |-> customers[1].position, h_reached |-> FALSE]

\* self._move_towards(target, dt, solid_rects, proximity_threshold) on a
\* thief or litterer
CallMoveAround ==
    /\ customers[1].kind # "regular" /\ ~game.h_reached /\ game.calls < MaxCalls
    /\ LET r == _move_towards(customers[1], game.target, game.dt,
                              get_customer_solid_tiles_around(
                                  CustomerRect(customers[1].position), tile_map),
                              game.threshold)
       IN  /\ customers' = <<r[1]>>
           /\ game' = [game EXCEPT !.calls = @ + 1, !.h_before = customers[1].position,
                                    !.h_reached = r[2]]
    /\ UNCHANGED <<tile_map, pf, cash_items, litter_items>>

NextCorner == CallMoveAround

SpecCorner == InitCorner /\ [][NextCorner]_vars

\* the five positions a call of _move_towards tries from position, for the
\* direction to the target and the step of dt: the full step, the step on
\* the axis of the larger component, the step on the other axis, and half a
\* step to either side
MoveCandidates(position, target, dt) ==
    LET direction == VSub(target, position)
        distance == Length(direction)
        move_x == RoundDiv(direction[1] * StepOf(dt), distance * 100)
        move_y == RoundDiv(direction[2] * StepOf(dt), distance * 100)
        perp_x == RoundDiv(-direction[2] * StepOf(dt), distance * 200)
        perp_y == RoundDiv(direction[1] * StepOf(dt), distance * 200)
        along_x == <<position[1] + move_x, position[2]>>
        along_y == <<position[1], position[2] + move_y>>
    IN  <<<<position[1] + move_x, position[2] + move_y>>,
          IF Abs(direction[1]) > Abs(direction[2]) THEN along_x ELSE along_y,
          IF Abs(direction[1]) > Abs(direction[2]) THEN along_y ELSE along_x,
          <<position[1] + perp_x, position[2] + perp_y>>,
          <<position[1] - perp_x, position[2] - perp_y>>>>

\* the reduced box at pos overlaps no obstacle tile around the customer at
\* position
FreeAt(pos, position, tm) ==
    ~would_collide(pos, get_customer_solid_tiles_around(CustomerRect(position), tm))

\* the candidate a call from position ends at is the k-th
EndsAtCandidate(k) ==
    /\ game.game_state = "corner" /\ game.calls > 0
    /\ ~Within(game.h_before, game.target, game.threshold)
    /\ LET tried == MoveCandidates(game.h_before, game.target, game.dt)
       IN  /\ customers[1].position = tried[k]
           /\ \A j \in 1..(k - 1) : ~FreeAt(tried[j], game.h_before, tile_map)

\* C33: a call of _move_towards that is not yet within the threshold of its
\* target sets the position to the first of the five candidates, in their
\* order, at which the reduced box overlaps no obstacle; when the box
\* overlaps an obstacle at every one of them the position stays as it was.
C33_FirstFreeCandidate ==
    (game.game_state = "corner" /\ game.calls > 0
     /\ ~Within(game.h_before, game.target, game.threshold))
        => LET tried == MoveCandidates(game.h_before, game.target, game.dt)
               free == {k \in 1..5 : FreeAt(tried[k], game.h_before, tile_map)}
           IN  IF free = {} THEN customers[1].position = game.h_before
               ELSE \E k \in free : /\ customers[1].position = tried[k]
                                    /\ \A j \in free : k <= j

\* a call has ended at the second slide, after the three steps and the first
\* slide collided
C33_Witness == EndsAtCandidate(5)

(***************************************************************************)
(* Claims on the obstacles, on the knockback and on the states after a     *)
(* strike                                                                  *)
(***************************************************************************)
\* the rects of all the tiles of the map that are solid for customers
SolidRects(tm) ==
    {Rect(col * TILE_SIZE, row * TILE_SIZE, TILE_SIZE, TILE_SIZE) :
        <<col, row>> \in {c \in (0..(MapCols(tm) - 1)) \X (0..(MapRows(tm) - 1)) :
                            tile_at(tm, c[1], c[2]) \in CUSTOMER_SOLID_TILES}}

\* C34, as stated: the reduced collision box of a thief or litterer overlaps
\* no tile that is solid for customers, and its centre is in no such tile.
C34_ReducedBoxFree ==
    \A i \in 1..Len(customers) :
        customers[i].kind # "regular"
            => /\ ~would_collide(customers[i].position, SolidRects(tile_map))
               /\ \A r \in SolidRects(tile_map) :
                     ~(r.left <= customers[i].position[1] /\ customers[i].position[1] < r.right
                       /\ r.top <= customers[i].position[2]
                       /\ customers[i].position[2] < r.bottom)

(***************************************************************************)
(* is_walkable and get_customer_solid_tiles_around asked about one cell of *)
(* a map of two tiles                                                      *)
(***************************************************************************)
\* the tile codes of config.py; "A" stands for the four activation codes
TileCodes == {TILE_FLOOR, TILE_WALL, TILE_SHELF, TILE_DOOR, TILE_COUNTER, TILE_NODE,
              TILE_OFFICE_DOOR, TILE_COMPUTER, "A"}

TileMaps == {<<<<a, b>>>> : a \in TileCodes, b \in TileCodes}

\* the cells asked about: the two of the map and those around it
TileCells == (-1..2) \X (-1..1)

InitTiles ==
    /\ tile_map \in TileMaps
    /\ pf = NoCall
    /\ customers = <<>>
    /\ cash_items = <<>>
    /\ litter_items = <<>>
    /\ \E cell \in TileCells :
          game = [game_state |-> "tiles", cell |-> cell, walkable |-> None,
                  obstacles |-> None]

\* is_walkable(tile_map, col, row); the answers are kept as sequences of one
CallIsWalkable ==
    /\ game.game_state = "tiles" /\ game.walkable = None
    /\ game' = [game EXCEPT !.walkable = <<is_walkable(tile_map, game.cell[1], game.cell[2])>>]
    /\ UNCHANGED <<tile_map, pf, customers, cash_items, litter_items>>

\* get_customer_solid_tiles_around(rect, tile_map)[0] for the rect of a
\* customer that stands in the middle of the cell
CallSolidTilesAround ==
    /\ game.game_state = "tiles" /\ game.obstacles = None
    /\ game' = [game EXCEPT !.obstacles =
                   <<get_customer_solid_tiles_around(
                         CustomerRect(tile_to_world(game.cell[1], game.cell[2])),
                         tile_map)>>]
    /\ UNCHANGED <<tile_map, pf, customers, cash_items, litter_items>>

NextTiles == CallIsWalkable \/ CallSolidTilesAround

SpecTiles == InitTiles /\ [][NextTiles]_vars

\* C35: a cell of the map is walkable for the pathfinder exactly when the
\* obstacle query around it does not return its rect; floor, node and door
\* tiles are walkable and not returned, wall, shelf, counter, office door and
\* computer tiles are returned and not walkable; a cell outside the map is
\* not walkable.
C35_WalkableIffNoObstacle ==
    (game.game_state = "tiles" /\ game.walkable # None /\ game.obstacles # None)
        => LET col == game.cell[1]
               row == game.cell[2]
               returned == Rect(col * TILE_SIZE, row * TILE_SIZE, TILE_SIZE, TILE_SIZE)
                              \in game.obstacles[1]
           IN  IF 0 <= row /\ row < Len(tile_map) /\ 0 <= col /\ col < Len(tile_map[1])
               THEN /\ game.walkable[1] = ~returned
                    /\ tile_map[row + 1][col + 1] \in {".", "N", "D"}
                         => game.walkable[1] /\ ~returned
                    /\ tile_map[row + 1][col + 1] \in {"#", "S", "C", "O", "P"}
                         => ~game.walkable[1] /\ returned
               ELSE ~game.walkable[1]

\* both questions were asked about a shelf tile beside a door tile
C35_Witness ==
    /\ game.game_state = "tiles" /\ game.walkable # None /\ game.obstacles # None
    /\ game.cell = <<0, 0>>
    /\ tile_map = <<<<TILE_SHELF, TILE_DOOR>>>>
    /\ ~game.walkable[1]
    /\ game.obstacles[1] # {}

\* the latest update of customer i called _follow_path without a path to
\* follow, at a position within limit of the position of the last recompute
\* of that branch
SteersNearLastRecompute(i, limit) ==
    /\ Len(customers') = Len(customers)
    /\ customers[i].kind # "regular"
    /\ customers'[i] # customers[i]
    /\ customers'[i].h_steer # None
    /\ customers[i]._last_path_recompute_pos # None
    /\ Within(customers'[i].h_steer.position, customers[i]._last_path_recompute_pos, limit)

\* C36, as stated: a call of _follow_path without a path to follow, made
\* within one tile of the position of the last recompute of that branch, asks
\* for a path to its target and notes the position as that of the recompute.
C36_RecomputesWhenNotMoved ==
    [][\A i \in 1..Len(customers) :
          SteersNearLastRecompute(i, TILE_SIZE)
            => /\ customers'[i]._last_path_recompute_pos = customers'[i].h_steer.position
               /\ \E k \in 1..Len(customers'[i].h_paths) :
                     customers'[i].h_paths[k] = <<customers'[i].h_steer.position,
                                                  customers'[i].h_steer.target>>]_vars

\* the position the knockback of customer c moves it to in an update of dt
KnockbackTestPos(c, dt) ==
    <<c.position[1] + RoundDiv(c.knockback_velocity[1] * dt * FPS, 100000),
      c.position[2] + RoundDiv(c.knockback_velocity[2] * dt * FPS, 100000)>>

\* an update of thief i that finds it in a knockback
KnockbackUpdate(i) ==
    /\ Len(customers') = Len(customers)
    /\ customers[i].kind = "thief" /\ customers[i].health > 0
    /\ customers'[i] # customers[i]
    /\ customers'[i].health = customers[i].health
    /\ customers[i].knockback_timer > 0
    /\ customers'[i].knockback_timer # 300

\* C37, as stated: an update that finds a thief in a knockback whose
\* full-size box at the displaced position overlaps an obstacle tile leaves
\* the position to the knockback as it was and sets the velocity and the
\* timer of the knockback to zero; every update lowers the timer by dt or
\* ends the knockback, velocity and timer at zero together, so that a
\* knockback ends as soon as the updates after the strike add up to 0.3 s.
C37_KnockbackStopsAtObstacle ==
    [][\A i \in 1..Len(customers) :
          KnockbackUpdate(i)
            => /\ (customers[i].knockback_velocity # <<0, 0>>
                   /\ \E r \in SolidRects(tile_map) :
                         colliderect(CustomerRect(KnockbackTestPos(customers[i], game.dt)), r))
                    => /\ customers'[i].knockback_velocity = <<0, 0>>
                       /\ customers'[i].knockback_timer = 0
                       /\ customers'[i].h_follow # None
                            => customers'[i].h_follow.position = customers[i].position
               /\ customers'[i].knockback_timer
                    = Max(customers[i].knockback_timer - game.dt, 0)
                  \/ customers'[i].knockback_timer = 0
               /\ customers'[i].knockback_timer = 0
                    => customers'[i].knockback_velocity = <<0, 0>>]_vars

(***************************************************************************)
(* Claims on the forced flight, on the number of customers and on the      *)
(* index into the path.                                                    *)
(***************************************************************************)
\* the customer of the identity of old in the list, if it is still there
Later(old, list) == {list[i] : i \in {i \in 1..Len(list) : list[i].id = old.id}}

\* the customers of the list
Listed(list) == {list[i] : i \in 1..Len(list)}

\* the path of new is none, or was asked for in the step from old to new for
\* the door or the exit point
FleesByNewPath(old, new) ==
    \/ new.path = None
    \/ /\ Len(new.h_paths) > Len(old.h_paths)
       /\ new.h_paths[Len(new.h_paths)][2] \in {new.leave_pos, new.door_pos}

IndexInPath(c) == c.path # None => (0 <= c.path_index /\ c.path_index <= Len(c.path))

\* C40: the index of a customer that holds a path lies between 0 and the
\* length of the path; a path asked for is counted from 0, so that the
\* update or the strike that asked for it ends at most one waypoint into it,
\* the strike at 0, and so does every step that takes the path away; and
\* the index moves forward only by one, past a waypoint read at an index
\* below the length of the path.
C40_IndexWithinPath ==
    /\ [](\A c \in PathWalkers(customers) :
             /\ IndexInPath(c)
             /\ c.h_paths # <<>> => c.path_index <= 1)
    /\ [][\A old \in PathWalkers(customers) : \A new \in Later(old, customers') :
             /\ (old.path # None /\ new.path = None) => new.path_index = 0
             /\ (old.kind = "thief" /\ new.health < old.health
                 /\ Len(new.h_paths) > Len(old.h_paths))
                    => new.path_index = 0
             /\ new.path_index # old.path_index
                    => \/ new.path_index = 0
                       \/ /\ new.path_index = old.path_index + 1
                          /\ new.path = old.path
                          /\ old.path_index < Len(old.path)
                       \/ /\ new.h_paths # <<>> /\ new.path_index = 1
                          /\ Len(new.path) >= 1]_vars

\* a struck thief has passed the first waypoints of the path it flees by and
\* has at least one more to read
C40_Witness ==
    \E c \in PathWalkers(customers) :
        /\ c.kind = "thief" /\ c.health < c.max_health /\ c.state = "leaving"
        /\ c.path # None /\ c.path_index >= 2 /\ c.path_index < Len(c.path)

=============================================================================
